---------------------------- MODULE Spec2Model ----------------------------
(***************************************************************************)
(* A model of forrustts' edge-buffer simplification:                       *)
(*   - NestedForwardList (src/src/nested_forward_list.rs),                 *)
(*   - the node/edge tables and their sort (src/src/tables.rs),            *)
(*   - the driver simplify_from_edge_buffer                                *)
(*     (src/src/simplify_from_edge_buffer.rs).                             *)
(* The sweep (SegmentOverlapper), merge_ancestors, process_parent and      *)
(* setup_simplification live in modules of the crate that are not part of  *)
(* the sources at hand; they are modelled from the design document.        *)
(*                                                                         *)
(* Node ids, list keys and record indices are 0-based as in the code; the  *)
(* element with id i of a Vec is element i + 1 of the sequence modelling   *)
(* it.                                                                     *)
(***************************************************************************)
EXTENDS Integers, Sequences, FiniteSets, TLC

VARIABLES
    tables,       \* TableCollection: [nodes_, edges_]
    edge_buffer,  \* EdgeBuffer = NestedForwardList<Segment>, keyed by parent
    samples,      \* SamplesInfo: [samples, edge_buffer_founder_nodes]
    state,        \* SimplificationBuffers: [ancestry, queue, new_nodes, new_edges]
    idmap,        \* SimplificationOutput::idmap
    pc,           \* position of the caller / of the driver
    loc,          \* the driver's local variables
    ret,          \* what the last call returned
    hist          \* history: the tables and buffer before the pass, the merge log

vars == <<tables, edge_buffer, samples, state, idmap, pc, loc, ret, hist>>

-----------------------------------------------------------------------------
(* Bounds of the model.                                                    *)

\* Number of nodes of a table collection handed to the driver.
MaxNodes == 3
\* Largest birth time.
MaxTime == 2
\* Largest number of rows of the pre-existing edge table.
MaxEdges == 3
\* Largest number of segments in the edge buffer.
MaxBuffered == 2
\* Genome length (TableCollection::length_) of the driver's tables.
GenomeLength == 2
\* Largest number of rows added to a table by the table-building caller.
MaxRows == 4
MaxTableTime == 1

-----------------------------------------------------------------------------
(* Generic helpers.                                                        *)

Min2(a, b) == IF a < b THEN a ELSE b
Max2(a, b) == IF a > b THEN a ELSE b

SeqsUpTo(S, n) == UNION {[1..k -> S] : k \in 0..n}

Range(s) == {s[i] : i \in 1..Len(s)}

\* A resize that fills every slot, the ones already there included
ResizeTruncating(s, n, fill) == [i \in 1..n |-> fill]

\* Vec::resize(n, fill)
Resize(s, n, fill) == [i \in 1..n |-> IF i <= Len(s) THEN s[i] ELSE fill]

\* std::mem::swap of two places, as the pair of their new values
Swap(a, b) == <<b, a>>

-----------------------------------------------------------------------------
(* NestedForwardList                                                       *)

\* NestedForwardList::null
Null == -1

\* NestedForwardList::new
NewList == [head_ |-> <<>>, tail_ |-> <<>>, next_ |-> <<>>, data_ |-> <<>>]

\* A key check that reports a negative key as a null tail
CheckKeyAsNullTail(k) == IF k < 0 THEN "NullTail" ELSE "Ok"

check_key(k) == IF k < 0 THEN "InvalidIndex" ELSE "Ok"

check_key_range(k, n) == IF k >= n THEN "InvalidIndex" ELSE "Ok"

\* A first record whose list is made to start at record 0, whichever list
\* that record was appended to
InsertNewRecordAtFirst(l, k, v) ==
    [l EXCEPT !.data_ = Append(@, v),
              !.head_[k + 1] = 0,
              !.tail_[k + 1] = Len(l.data_),
              !.next_ = Append(@, Null)]

\* A first record that becomes the head of its list and not its tail
InsertNewRecordHeadOnly(l, k, v) ==
    [l EXCEPT !.data_ = Append(@, v),
              !.head_[k + 1] = Len(l.data_),
              !.next_ = Append(@, Null)]

insert_new_record(l, k, v) ==
    LET x == (Len(l.data_) + 1) - 1
    IN  [l EXCEPT !.data_ = Append(@, v),
                  !.head_[k + 1] = x,
                  !.tail_[k + 1] = x,
                  !.next_ = Append(@, Null)]

\* An append whose new record is linked back to the head of its list
ExtendLinkingBack(l, k, v) ==
    IF check_key(k) # "Ok" THEN [err |-> check_key(k), list |-> l]
    ELSE
      LET l1 == IF k >= Len(l.head_)
                THEN [l EXCEPT !.head_ = Resize(@, k + 1, Null),
                               !.tail_ = Resize(@, k + 1, Null)]
                ELSE l
      IN  IF l1.head_[k + 1] = Null
          THEN [err |-> "Ok", list |-> insert_new_record(l1, k, v)]
          ELSE [err |-> "Ok",
                list |-> [l1 EXCEPT !.data_ = Append(@, v),
                                    !.tail_[k + 1] = Len(l1.data_),
                                    !.next_ = Append([@ EXCEPT ![l1.tail_[k + 1] + 1] =
                                                                   Len(l1.data_)],
                                                     l1.head_[k + 1])]]

\* An append that moves the tail and does not link the former tail to the
\* new record
ExtendWithoutLink(l, k, v) ==
    IF check_key(k) # "Ok" THEN [err |-> check_key(k), list |-> l]
    ELSE
      LET l1 == IF k >= Len(l.head_)
                THEN [l EXCEPT !.head_ = Resize(@, k + 1, Null),
                               !.tail_ = Resize(@, k + 1, Null)]
                ELSE l
      IN  IF l1.head_[k + 1] = Null
          THEN [err |-> "Ok", list |-> insert_new_record(l1, k, v)]
          ELSE [err |-> "Ok",
                list |-> [l1 EXCEPT !.data_ = Append(@, v),
                                    !.tail_[k + 1] = Len(l1.data_),
                                    !.next_ = Append(@, Null)]]

\* extend(k, v): [err, list]
extend(l, k, v) ==
    IF check_key(k) # "Ok" THEN [err |-> check_key(k), list |-> l]
    ELSE
      LET l1 == IF k >= Len(l.head_)
                THEN [l EXCEPT !.head_ = Resize(@, k + 1, Null),
                               !.tail_ = Resize(@, k + 1, Null)]
                ELSE l
      IN  IF l1.head_[k + 1] = Null
          THEN [err |-> "Ok", list |-> insert_new_record(l1, k, v)]
          ELSE LET t == l1.tail_[k + 1]
               IN  IF t = Null
                   THEN [err |-> "NullTail", list |-> l1]
                   ELSE [err |-> "Ok",
                         list |-> [l1 EXCEPT !.data_ = Append(@, v),
                                             !.tail_[k + 1] = Len(l1.data_),
                                             !.next_ = Append([@ EXCEPT ![t + 1] = Len(l1.data_)],
                                                              Null)]]

\* fetch(at): [err, val]
fetch(l, at) ==
    IF check_key(at) # "Ok" \/ check_key_range(at, Len(l.data_)) # "Ok"
    THEN [err |-> "InvalidIndex", val |-> Null]
    ELSE [err |-> "Ok", val |-> l.data_[at + 1]]

\* fetch_mut(at) followed by a store of v through the reference: [err, list]
fetch_mut(l, at, v) ==
    IF check_key(at) # "Ok" \/ check_key_range(at, Len(l.data_)) # "Ok"
    THEN [err |-> "InvalidIndex", list |-> l]
    ELSE [err |-> "Ok", list |-> [l EXCEPT !.data_[at + 1] = v]]

head(l, at) ==
    IF check_key(at) # "Ok" \/ check_key_range(at, Len(l.head_)) # "Ok"
    THEN [err |-> "InvalidIndex", val |-> Null]
    ELSE [err |-> "Ok", val |-> l.head_[at + 1]]

tail(l, at) ==
    IF check_key(at) # "Ok" \/ check_key_range(at, Len(l.tail_)) # "Ok"
    THEN [err |-> "InvalidIndex", val |-> Null]
    ELSE [err |-> "Ok", val |-> l.tail_[at + 1]]

\* A next that answers null for a record index that is out of range
NextNullOutOfRange(l, at) ==
    IF check_key(at) # "Ok" \/ check_key_range(at, Len(l.next_)) # "Ok"
    THEN [err |-> "Ok", val |-> Null]
    ELSE [err |-> "Ok", val |-> l.next_[at + 1]]

next(l, at) ==
    IF check_key(at) # "Ok" \/ check_key_range(at, Len(l.next_)) # "Ok"
    THEN [err |-> "InvalidIndex", val |-> Null]
    ELSE [err |-> "Ok", val |-> l.next_[at + 1]]

clear(l) == NewList

\* A traversal that goes on to the end of the list whatever the visitor
\* returns
RECURSIVE ForEachFromDeaf(_, _, _, _, _)
ForEachFromDeaf(l, itr, stop, acc, fuel) ==
    IF itr = Null \/ fuel = 0 THEN [err |-> "Ok", visited |-> acc]
    ELSE IF fetch(l, itr).err # "Ok" THEN [err |-> fetch(l, itr).err, visited |-> acc]
    ELSE IF next(l, itr).err # "Ok"
         THEN [err |-> next(l, itr).err, visited |-> Append(acc, fetch(l, itr).val)]
    ELSE ForEachFromDeaf(l, next(l, itr).val, stop, Append(acc, fetch(l, itr).val), fuel - 1)

\* A traversal that visits the record it starts at and no other
ForEachFromHeadOnly(l, itr, stop, acc, fuel) ==
    IF itr = Null THEN [err |-> "Ok", visited |-> acc]
    ELSE [err |-> fetch(l, itr).err,
          visited |-> IF fetch(l, itr).err = "Ok" THEN Append(acc, fetch(l, itr).val)
                      ELSE acc]

\* The loop of for_each from record itr on.  The visitor returns false on
\* its stop-th call (stop = 0: it never does); acc holds the values it has
\* been called on.  A next_ chain is never longer than data_, which bounds
\* the recursion.
RECURSIVE for_each_from(_, _, _, _, _)
for_each_from(l, itr, stop, acc, fuel) ==
    IF itr = Null \/ fuel = 0 THEN [err |-> "Ok", visited |-> acc]
    ELSE LET val == fetch(l, itr)
         IN  IF val.err # "Ok" THEN [err |-> val.err, visited |-> acc]
             ELSE LET acc1 == Append(acc, val.val)
                  IN  IF Len(acc1) = stop THEN [err |-> "Ok", visited |-> acc1]
                      ELSE LET n == next(l, itr)
                           IN  IF n.err # "Ok" THEN [err |-> n.err, visited |-> acc1]
                               ELSE for_each_from(l, n.val, stop, acc1, fuel - 1)

\* for_each(at, f): [err, visited]
for_each(l, at, stop) ==
    LET h == head(l, at)
    IN  IF h.err # "Ok" THEN [err |-> h.err, visited |-> <<>>]
        ELSE for_each_from(l, h.val, stop, <<>>, Len(l.data_) + 1)

\* A nullify_list that resets the tail of the list and keeps its head
NullifyListTailOnly(l, at) ==
    IF check_key(at) # "Ok" \/ check_key_range(at, Len(l.head_)) # "Ok"
    THEN [err |-> "InvalidIndex", list |-> l]
    ELSE [err |-> "Ok", list |-> [l EXCEPT !.tail_[at + 1] = Null]]

\* A nullify_list that checks its key and detaches nothing
NullifyListKept(l, at) ==
    IF check_key(at) # "Ok" \/ check_key_range(at, Len(l.head_)) # "Ok"
    THEN [err |-> "InvalidIndex", list |-> l]
    ELSE [err |-> "Ok", list |-> l]

nullify_list(l, at) ==
    IF check_key(at) # "Ok"
       \/ check_key_range(at, Len(l.head_)) # "Ok"
       \/ check_key_range(at, Len(l.tail_)) # "Ok"
    THEN [err |-> "InvalidIndex", list |-> l]
    ELSE [err |-> "Ok", list |-> [l EXCEPT !.head_[at + 1] = Null, !.tail_[at + 1] = Null]]

\* A reset that resizes the heads and tails and keeps the records
ResetKeepingRecords(l, newsize) ==
    [l EXCEPT !.head_ = [i \in 1..newsize |-> Null],
              !.tail_ = [i \in 1..newsize |-> Null]]

reset(l, newsize) ==
    LET c == clear(l)
    IN  [c EXCEPT !.head_ = [i \in 1..newsize |-> Null],
                  !.tail_ = [i \in 1..newsize |-> Null]]

\* head_itr(): the heads, in key order
head_itr(l) == l.head_

len(l) == Len(l.head_)

-----------------------------------------------------------------------------
(* Segment                                                                 *)

Segment(left, right, node) == [left |-> left, right |-> right, node |-> node]

-----------------------------------------------------------------------------
(* Tables                                                                  *)

Node(time, deme) == [time |-> time, deme |-> deme]

Edge(left, right, parent, child) ==
    [left |-> left, right |-> right, parent |-> parent, child |-> child]

position_non_negative(x) == IF x < 0 THEN "InvalidPosition" ELSE "Ok"
node_non_negative(x) == IF x < 0 THEN "InvalidNodeValue" ELSE "Ok"
time_non_negative(x) == IF x < 0 THEN "InvalidTime" ELSE "Ok"
deme_non_negative(x) == IF x < 0 THEN "InvalidDeme" ELSE "Ok"

\* An edge_table_add_row that checks the positions and not the node ids
EdgeTableAddRowNoNodeCheck(es, left, right, parent, child) ==
    IF right <= left THEN [err |-> "InvalidLeftRight", val |-> 0, edges |-> es]
    ELSE IF position_non_negative(left) # "Ok"
         THEN [err |-> "InvalidPosition", val |-> 0, edges |-> es]
    ELSE IF position_non_negative(right) # "Ok"
         THEN [err |-> "InvalidPosition", val |-> 0, edges |-> es]
    ELSE [err |-> "Ok", val |-> Len(es) + 1,
          edges |-> Append(es, Edge(left, right, parent, child))]

\* edge_table_add_row: [err, val, edges]
edge_table_add_row(es, left, right, parent, child) ==
    IF right <= left THEN [err |-> "InvalidLeftRight", val |-> 0, edges |-> es]
    ELSE IF position_non_negative(left) # "Ok"
         THEN [err |-> "InvalidPosition", val |-> 0, edges |-> es]
    ELSE IF position_non_negative(right) # "Ok"
         THEN [err |-> "InvalidPosition", val |-> 0, edges |-> es]
    ELSE IF node_non_negative(parent) # "Ok"
         THEN [err |-> "InvalidNodeValue", val |-> 0, edges |-> es]
    ELSE IF node_non_negative(child) # "Ok"
         THEN [err |-> "InvalidNodeValue", val |-> 0, edges |-> es]
    ELSE LET es1 == Append(es, Edge(left, right, parent, child))
         IN  [err |-> "Ok", val |-> Len(es1), edges |-> es1]

\* node_table_add_row: [err, val, nodes]
\* A node row added with the index of the new row as the result
NodeTableAddRowIndex(ns, time, deme) ==
    IF time_non_negative(time) # "Ok" THEN [err |-> "InvalidTime", val |-> 0, nodes |-> ns]
    ELSE IF deme_non_negative(deme) # "Ok"
         THEN [err |-> "InvalidDeme", val |-> 0, nodes |-> ns]
    ELSE [err |-> "Ok", val |-> Len(ns), nodes |-> Append(ns, Node(time, deme))]

node_table_add_row(ns, time, deme) ==
    IF time_non_negative(time) # "Ok" THEN [err |-> "InvalidTime", val |-> 0, nodes |-> ns]
    ELSE IF deme_non_negative(deme) # "Ok"
         THEN [err |-> "InvalidDeme", val |-> 0, nodes |-> ns]
    ELSE LET ns1 == Append(ns, Node(time, deme))
         IN  [err |-> "Ok", val |-> Len(ns1), nodes |-> ns1]

\* Ordering::reverse
Reverse(o) == IF o = "Less" THEN "Greater" ELSE IF o = "Greater" THEN "Less" ELSE o

\* Ord::cmp on integers
Cmp(x, y) == IF x < y THEN "Less" ELSE IF x > y THEN "Greater" ELSE "Equal"

\* The closure sort_edge_table hands to sort_by.  Both pindex and cindex are
\* a.parent; indexing the node slice out of range panics.
SortEdgeCmp(ns, a, b) ==
    LET pindex == a.parent
        cindex == a.parent
    IN  IF pindex + 1 > Len(ns) \/ cindex + 1 > Len(ns) THEN "panic"
        ELSE LET ta == ns[pindex + 1].time
                 tb == ns[cindex + 1].time
             IN  IF ta = tb /\ a.parent = b.parent
                 THEN IF a.child = b.child
                      THEN Cmp(a.left, b.left)
                      ELSE Cmp(a.parent, b.parent)
                 ELSE Reverse(Cmp(ta, tb))

\* The closure sort_mutation_table hands to sort_by.
SortMutationCmp(ss, a, b) ==
    IF a.site + 1 > Len(ss) \/ b.site + 1 > Len(ss) THEN "panic"
    ELSE LET pa == ss[a.site + 1].position
             pb == ss[b.site + 1].position
         IN  Reverse(Cmp(pa, pb))

\* One insertion of slice::sort_by's insertion sort (the stable sort of a
\* slice of at most 20 elements): x = v[i] moves left past every element it
\* compares Less than.  j is the position of the hole.
RECURSIVE InsertTail(_, _, _, _)
InsertTail(compare(_, _), v, x, j) ==
    IF j = 1 THEN [v |-> v, panic |-> FALSE]
    ELSE LET c == compare(x, v[j - 1])
         IN  IF c = "panic" THEN [v |-> v, panic |-> TRUE]
             ELSE IF c = "Less"
                  THEN InsertTail(compare, [v EXCEPT ![j] = v[j - 1], ![j - 1] = x], x, j - 1)
                  ELSE [v |-> v, panic |-> FALSE]

RECURSIVE InsertionSort(_, _, _)
InsertionSort(compare(_, _), v, i) ==
    IF i > Len(v) THEN [v |-> v, panic |-> FALSE]
    ELSE LET r == InsertTail(compare, v, v[i], i)
         IN  IF r.panic THEN r ELSE InsertionSort(compare, r.v, i + 1)

\* The stable sort of v: [v, panic]
StableSort(v, compare(_, _)) == InsertionSort(compare, v, 2)

\* compare never panics on the elements of v and orders them consistently:
\* it is antisymmetric, and transitive with Equal as an equivalence
ConsistentOrder(v, compare(_, _)) ==
    LET Le(i, j) == compare(v[i], v[j]) \in {"Less", "Equal"}
    IN  /\ \A i, j \in 1..Len(v) :
               /\ compare(v[i], v[j]) # "panic"
               /\ compare(v[i], v[j]) = Reverse(compare(v[j], v[i]))
        /\ \A i, j, k \in 1..Len(v) :
               (Le(i, j) /\ Le(j, k))
               => /\ Le(i, k)
                  /\ (compare(v[i], v[j]) = "Less" \/ compare(v[j], v[k]) = "Less")
                         => compare(v[i], v[k]) = "Less"

\* p holds the elements of v, each as many times as v does
Rearranges(p, v) ==
    /\ Len(p) = Len(v)
    /\ \A x \in Range(v) :
           Cardinality({i \in 1..Len(p) : p[i] = x}) =
               Cardinality({i \in 1..Len(v) : v[i] = x})

\* slice::sort_by: the set of its outcomes [v, panic].  A slice of at most
\* 20 elements is sorted by insertion; a longer one by a merge sort whose
\* result is the stable sort when the closure is a consistent order, and
\* is otherwise unspecified: the sort may panic or not, and leaves the
\* elements in some order.
sort_by(v, compare(_, _)) ==
    IF Len(v) <= 20 \/ ConsistentOrder(v, compare)
    THEN {StableSort(v, compare)}
    ELSE {r \in [v : Seq(Range(v)), panic : BOOLEAN] : Rearranges(r.v, v)}

\* The outcome of a call that has one
TheOutcome(outcomes) == CHOOSE r \in outcomes : TRUE

\* sort_edge_table: the set of its outcomes [v, panic]
sort_edge_table(ns, es) == sort_by(es, LAMBDA a, b : SortEdgeCmp(ns, a, b))

\* sort_mutation_table: the set of its outcomes [v, panic]
sort_mutation_table(ss, ms) == sort_by(ms, LAMBDA a, b : SortMutationCmp(ss, a, b))

\* site_table_add_row: [err, val, sites]
site_table_add_row(ss, position, ancestral_state) ==
    IF position_non_negative(position) # "Ok"
    THEN [err |-> "InvalidPosition", val |-> 0, sites |-> ss]
    ELSE LET ss1 == Append(ss, [position |-> position, ancestral_state |-> ancestral_state])
         IN  [err |-> "Ok", val |-> Len(ss1), sites |-> ss1]

\* mutation_table_add_row: [err, val, mutations]
mutation_table_add_row(ms, node, key, site, derived_state, neutral) ==
    IF node_non_negative(node) # "Ok"
    THEN [err |-> "InvalidNodeValue", val |-> 0, mutations |-> ms]
    ELSE LET ms1 == Append(ms, [node |-> node, key |-> key, site |-> site,
                                derived_state |-> derived_state, neutral |-> neutral])
         IN  [err |-> "Ok", val |-> Len(ms1), mutations |-> ms1]

\* TableCollection::new: [err, tables]
NewTables(genome_length) ==
    IF genome_length < 1 THEN [err |-> "InvalidGenomeLength", tables |-> <<>>]
    ELSE [err |-> "Ok",
          tables |-> [length_ |-> genome_length, nodes_ |-> <<>>, edges_ |-> <<>>,
                      sites_ |-> <<>>, mutations_ |-> <<>>]]

\* TableCollection::add_node: [err, val, tables]
add_node(t, time, deme) ==
    LET r == node_table_add_row(t.nodes_, time, deme)
    IN  [err |-> r.err, val |-> r.val, tables |-> [t EXCEPT !.nodes_ = r.nodes]]

\* TableCollection::add_edge
add_edge(t, left, right, parent, child) ==
    LET r == edge_table_add_row(t.edges_, left, right, parent, child)
    IN  [err |-> r.err, val |-> r.val, tables |-> [t EXCEPT !.edges_ = r.edges]]

\* TableCollection::add_site
add_site(t, position, ancestral_state) ==
    IF position >= t.length_
    THEN [err |-> "InvalidPosition", val |-> 0, tables |-> t]
    ELSE LET r == site_table_add_row(t.sites_, position, ancestral_state)
         IN  [err |-> r.err, val |-> r.val, tables |-> [t EXCEPT !.sites_ = r.sites]]

\* TableCollection::add_mutation
add_mutation(t, node, key, site, derived_state, neutral) ==
    LET r == mutation_table_add_row(t.mutations_, node, key, site, derived_state, neutral)
    IN  [err |-> r.err, val |-> r.val, tables |-> [t EXCEPT !.mutations_ = r.mutations]]

\* TableCollection::sort_tables_for_simplification: the set of its outcomes
\* [panic, tables].  A panic in the edge sort unwinds before the mutation
\* sort is reached.
sort_tables_for_simplification(t) ==
    {[panic |-> TRUE, tables |-> [t EXCEPT !.edges_ = e.v]] :
        e \in {x \in sort_edge_table(t.nodes_, t.edges_) : x.panic}}
    \cup {[panic |-> m.panic, tables |-> [t EXCEPT !.edges_ = e.v, !.mutations_ = m.v]] :
             e \in {x \in sort_edge_table(t.nodes_, t.edges_) : ~x.panic},
             m \in sort_mutation_table(t.sites_, t.mutations_)}

TableCollection_num_nodes(t) == Len(t.nodes_)
TableCollection_num_edges(t) == Len(t.edges_)
TableCollection_genome_length(t) == t.length_

-----------------------------------------------------------------------------
(* SegmentOverlapper: the interval sweep (design §4.3).                    *)

\* Position::MAX: larger than every coordinate of the model.
PositionMax == 1000000

\* A fresh overlapper: nothing staged, nothing open.
NewOverlapper ==
    [segment_queue |-> <<>>, overlapping |-> <<>>, left |-> 0, right |-> PositionMax,
     qbeg |-> 1, qend |-> 1]

\* enqueue(left, right, mapped_node): stage one interval
enqueue(o, left, right, node) ==
    [o EXCEPT !.segment_queue = Append(@, Segment(left, right, node))]

\* clear_queue(): reset without deallocating
clear_queue(o) == [o EXCEPT !.segment_queue = <<>>]

\* The staged intervals left in the order of their insertion
SortByLeftSkipped(q) == q

\* The stable sort of the staged intervals by left
SortByLeft(q) == TheOutcome(sort_by(q, LAMBDA a, b : Cmp(a.left, b.left))).v

\* finalize_queue(genome_length): sort by left, ties in insertion order, and
\* bound the sweep with a sentinel interval that starts at genome_length
finalize_queue(o, maxlen) ==
    [o EXCEPT !.segment_queue = Append(SortByLeft(@), Segment(maxlen, maxlen + 1, Null))]

\* The start of a sweep: nothing consumed, nothing open; qend is the sentinel
overlapper_init(o) ==
    [o EXCEPT !.qbeg = 1, !.qend = Len(o.segment_queue), !.overlapping = <<>>]

\* The open intervals that still cover `left`
StillOpen(o) == SelectSeq(o.overlapping, LAMBDA x : x.right > o.left)

RECURSIVE MinRight(_, _)
MinRight(segs, acc) ==
    IF segs = <<>> THEN acc ELSE MinRight(Tail(segs), Min2(acc, Head(segs).right))

\* The staged intervals from qbeg on that start exactly at `left`, the
\* sentinel excluded
RECURSIVE StartingAt(_, _, _, _)
StartingAt(q, i, qend, left) ==
    IF i < qend /\ q[i].left = left
    THEN <<q[i]>> \o StartingAt(q, i + 1, qend, left)
    ELSE <<>>

\* advance(): [rv, o].  rv = TRUE reports the sub-interval [o.left, o.right)
\* with the open intervals o.overlapping.
advance(o) ==
    IF o.qbeg < o.qend
    THEN LET o1   == [o EXCEPT !.left = o.right]
             kept == StillOpen(o1)
             l    == IF kept = <<>> THEN o.segment_queue[o.qbeg].left ELSE o1.left
             new  == StartingAt(o.segment_queue, o.qbeg, o.qend, l)
             open == kept \o new
             qb   == o.qbeg + Len(new)
             r    == Min2(o.segment_queue[qb].left, MinRight(open, PositionMax))
         IN  [rv |-> TRUE,
              o  |-> [o EXCEPT !.left = l, !.right = r, !.overlapping = open, !.qbeg = qb]]
    ELSE LET o1   == [o EXCEPT !.left = o.right]
             kept == StillOpen(o1)
         IN  IF kept # <<>>
             THEN [rv |-> TRUE,
                   o  |-> [o1 EXCEPT !.right = MinRight(kept, PositionMax),
                                     !.overlapping = kept]]
             ELSE [rv |-> FALSE,
                   o  |-> [o1 EXCEPT !.right = PositionMax, !.overlapping = kept]]

-----------------------------------------------------------------------------
(* The ancestry tracker and merge_ancestors (design §3, §4.4).             *)

\* SimplificationBuffers::new
NewBuffers ==
    [ancestry |-> NewList, overlapper |-> NewOverlapper, new_nodes |-> <<>>,
     new_edges |-> <<>>]

\* Record (left, right, node) in the ancestry of input_id; an entry that
\* continues the list's last entry with the same mapped node widens it
\* instead (the squash of adjacent entries).  [err, list]
add_ancestry(anc, input_id, left, right, node) ==
    LET fresh == extend(anc, input_id, Segment(left, right, node))
        Widen(t, last) ==
            IF t.err # "Ok" THEN [err |-> t.err, list |-> anc]
            ELSE IF last.err # "Ok" THEN [err |-> last.err, list |-> anc]
            ELSE IF last.val.right = left /\ last.val.node = node
                 THEN fetch_mut(anc, t.val, [last.val EXCEPT !.right = right])
                 ELSE fresh
        AtTail(t) == Widen(t, fetch(anc, t.val))
        AtHead(h) ==
            IF h.err # "Ok" THEN [err |-> h.err, list |-> anc]
            ELSE IF h.val = Null THEN fresh
            ELSE AtTail(tail(anc, input_id))
    IN  AtHead(head(anc, input_id))

\* One output edge per open interval of the reported sub-interval
EdgesOfOverlaps(left, right, parent, overlaps) ==
    [i \in 1..Len(overlaps) |-> Edge(left, right, parent, overlaps[i].node)]

\* An allocation on every coalescing sub-interval, whether or not the parent
\* has an output node
CoalescenceNodeAlways(input_nodes, parent, new_nodes, output_id) ==
    [new_nodes |-> Append(new_nodes, input_nodes[parent + 1]),
     output_id |-> (Len(new_nodes) + 1) - 1]

\* The output node a coalescing sub-interval uses: idmap[parent] if it is
\* set, else a node allocated now.  [new_nodes, output_id]
CoalescenceNode(input_nodes, parent, new_nodes, output_id) ==
    IF output_id = Null
    THEN [new_nodes |-> Append(new_nodes, input_nodes[parent + 1]),
          output_id |-> (Len(new_nodes) + 1) - 1]
    ELSE [new_nodes |-> new_nodes, output_id |-> output_id]

\* What one reported sub-interval does to the pass.  m is
\* [err, o, ancestry, new_nodes, new_edges, idmap, output_id, previous_right].
MergeInterval(input_nodes, parent, is_sample, m) ==
    LET l  == m.o.left
        r  == m.o.right
        ov == m.o.overlapping
        single == Len(ov) = 1
        Record(cn, a) ==
            [m EXCEPT !.err = a.err,
                      !.ancestry = a.list,
                      !.new_nodes = cn.new_nodes,
                      !.new_edges = @ \o (IF single /\ ~is_sample THEN <<>>
                                          ELSE EdgesOfOverlaps(l, r, cn.output_id, ov)),
                      !.idmap = IF single THEN @
                                ELSE [@ EXCEPT ![parent + 1] = cn.output_id],
                      !.output_id = cn.output_id,
                      !.previous_right = r]
        Cover(cn, gap) ==
            Record(cn, IF gap.err # "Ok" THEN gap
                       ELSE add_ancestry(gap.list, parent, l, r,
                                IF single /\ ~is_sample THEN ov[1].node ELSE cn.output_id))
        FillGap(cn) ==
            Cover(cn, IF is_sample /\ l # m.previous_right
                      THEN add_ancestry(m.ancestry, parent, m.previous_right, l, cn.output_id)
                      ELSE [err |-> "Ok", list |-> m.ancestry])
    IN  FillGap(IF single THEN [new_nodes |-> m.new_nodes, output_id |-> m.output_id]
                ELSE CoalescenceNode(input_nodes, parent, m.new_nodes, m.output_id))

\* The sweep of merge_ancestors: one MergeInterval per reported sub-interval,
\* left to right.  A sweep reports fewer sub-intervals than twice the number
\* of staged intervals, which bounds the recursion.
RECURSIVE MergeLoop(_, _, _, _, _)
MergeLoop(input_nodes, parent, is_sample, m, fuel) ==
    LET Continue(m1) ==
            IF m1.err # "Ok" THEN m1
            ELSE MergeLoop(input_nodes, parent, is_sample, m1, fuel - 1)
        Report(a) ==
            IF ~a.rv \/ fuel = 0 THEN [m EXCEPT !.o = a.o]
            ELSE Continue(MergeInterval(input_nodes, parent, is_sample, [m EXCEPT !.o = a.o]))
    IN  Report(advance(m.o))

\* merge_ancestors(input_nodes, maxlen, parent_input_id, state, idmap):
\* [err, state, idmap].  A parent that is a retained sample (idmap set on
\* entry) keeps an ancestry that maps [0, maxlen) to itself.
merge_ancestors(input_nodes, maxlen, parent, st, idm) ==
    LET output_id == idm[parent + 1]
        is_sample == output_id # Null
        Close(m1, fin) ==
            [err |-> fin.err,
             state |-> [ancestry |-> fin.list, overlapper |-> m1.o,
                        new_nodes |-> m1.new_nodes, new_edges |-> m1.new_edges],
             idmap |-> m1.idmap]
        FillEnd(m1) ==
            Close(m1, IF m1.err = "Ok" /\ is_sample /\ m1.previous_right # maxlen
                      THEN add_ancestry(m1.ancestry, parent, m1.previous_right, maxlen,
                                        m1.output_id)
                      ELSE [err |-> m1.err, list |-> m1.ancestry])
        Sweep(m0) ==
            FillEnd(IF m0.err # "Ok" THEN m0
                    ELSE MergeLoop(input_nodes, parent, is_sample, m0,
                                   2 * Len(st.overlapper.segment_queue) + 1))
        Start(nul) ==
            Sweep([err |-> nul.err, o |-> overlapper_init(st.overlapper),
                   ancestry |-> nul.list, new_nodes |-> st.new_nodes,
                   new_edges |-> st.new_edges, idmap |-> idm, output_id |-> output_id,
                   previous_right |-> 0])
    IN  IF parent < 0 \/ parent + 1 > Len(idm) \/ parent + 1 > Len(input_nodes)
        THEN [err |-> "panic", state |-> st, idmap |-> idm]
        ELSE Start(IF is_sample THEN nullify_list(st.ancestry, parent)
                   ELSE [err |-> "Ok", list |-> st.ancestry])

-----------------------------------------------------------------------------
(* setup_simplification and process_parent (simplification_common).        *)

\* The sample nodes in order: each gets the next output node, an ancestry
\* that maps the whole genome to it, and its idmap entry.  A sample that is
\* no node of the table, or listed twice, fails the setup.
RECURSIVE record_sample_nodes(_, _, _, _, _)
record_sample_nodes(ss, t, st, idm, i) ==
    IF i > Len(ss) THEN [err |-> "Ok", state |-> st, idmap |-> idm]
    ELSE LET sample == ss[i]
         IN  IF sample < 0 \/ sample + 1 > Len(t.nodes_)
             THEN [err |-> "SimplificationError", state |-> st, idmap |-> idm]
             ELSE IF idm[sample + 1] # Null
             THEN [err |-> "SimplificationError", state |-> st, idmap |-> idm]
             ELSE LET nn == Append(st.new_nodes, t.nodes_[sample + 1])
                      a  == add_ancestry(st.ancestry, sample, 0, t.length_, Len(nn) - 1)
                  IN  IF a.err # "Ok" THEN [err |-> a.err, state |-> st, idmap |-> idm]
                      ELSE record_sample_nodes(ss, t,
                               [st EXCEPT !.new_nodes = nn, !.ancestry = a.list],
                               [idm EXCEPT ![sample + 1] = Len(nn) - 1], i + 1)

\* A setup that leaves in the buffers what the previous pass swapped out
SetupKeepingBuffers(smp, t, st, idm) ==
    IF smp.samples = <<>>
    THEN [err |-> "SimplificationError", state |-> st, idmap |-> idm]
    ELSE record_sample_nodes(smp.samples, t,
             [ancestry |-> reset(st.ancestry, Len(t.nodes_)),
              overlapper |-> NewOverlapper, new_nodes |-> st.new_nodes,
              new_edges |-> st.new_edges],
             [i \in 1..Len(t.nodes_) |-> Null], 1)

\* setup_simplification(samples, tables, flags, state, output):
\* [err, state, idmap].  The buffers start the pass empty, the ancestry
\* tracker has one list per input node and the idmap is all null.
setup_simplification(smp, t, st, idm) ==
    IF smp.samples = <<>>
    THEN [err |-> "SimplificationError", state |-> st, idmap |-> idm]
    ELSE record_sample_nodes(smp.samples, t,
             [ancestry |-> reset(st.ancestry, Len(t.nodes_)),
              overlapper |-> NewOverlapper, new_nodes |-> <<>>, new_edges |-> <<>>],
             [i \in 1..Len(t.nodes_) |-> Null], 1)

-----------------------------------------------------------------------------
(* simplify_from_edge_buffer.rs                                            *)

\* usize::MAX, the not-found sentinel: larger than every edge index.
UsizeMax == 1000000

\* Time::MIN: smaller than every birth time.
TimeMin == -1000000

ParentLocation(parent, start, stop) == [parent |-> parent, start |-> start, stop |-> stop]

\* The founders whose list in the edge buffer is not empty, in the order
\* given; the first failing lookup ends the scan.  [err, alive]
RECURSIVE AliveWithNewEdges(_, _, _, _)
AliveWithNewEdges(founders, eb, i, acc) ==
    IF i > Len(founders) THEN [err |-> "Ok", alive |-> acc]
    ELSE LET h == head(eb, founders[i])
         IN  IF h.err # "Ok" THEN [err |-> h.err, alive |-> acc]
             ELSE AliveWithNewEdges(founders, eb, i + 1,
                      IF h.val # Null THEN Append(acc, founders[i]) ELSE acc)

\* starts[p] and stops[p] after the scan of the edge table (0-based indices)
EdgeStart(es, p) ==
    IF \E i \in 1..Len(es) : es[i].parent = p
    THEN (CHOOSE i \in 1..Len(es) :
              es[i].parent = p /\ \A j \in 1..(i - 1) : es[j].parent # p) - 1
    ELSE UsizeMax

\* A stop that is one past the first edge of the parent
EdgeStopAfterStart(es, p) ==
    IF \E i \in 1..Len(es) : es[i].parent = p
    THEN (CHOOSE i \in 1..Len(es) :
              es[i].parent = p /\ \A j \in 1..(i - 1) : es[j].parent # p) - 1 + 1
    ELSE UsizeMax

EdgeStop(es, p) ==
    IF \E i \in 1..Len(es) : es[i].parent = p
    THEN (CHOOSE i \in 1..Len(es) :
              es[i].parent = p /\ \A j \in (i + 1)..Len(es) : es[j].parent # p) - 1 + 1
    ELSE UsizeMax

\* The closure find_pre_existing_edges sorts the locations by
ParentLocationCmp(ns, a, b) ==
    LET ta == ns[a.parent + 1].time
        tb == ns[b.parent + 1].time
    IN  IF ta = tb
        THEN IF a.start = b.start THEN Cmp(a.parent, b.parent)
             ELSE Cmp(a.start, b.start)
        ELSE Reverse(Cmp(ta, tb))

\* The check after the sort: some location is followed by one of a later time
NotSortedByTime(ns, rv) ==
    \E i \in 2..Len(rv) : ns[rv[i - 1].parent + 1].time < ns[rv[i].parent + 1].time

\* find_pre_existing_edges: [err, rv]
find_pre_existing_edges(t, founders, eb) ==
    LET Checked(rv) ==
            IF NotSortedByTime(t.nodes_, rv)
            THEN [err |-> "SimplificationError", rv |-> <<>>]
            ELSE [err |-> "Ok", rv |-> rv]
        Sorted(unsorted) ==
            Checked(TheOutcome(sort_by(unsorted,
                                       LAMBDA a, b : ParentLocationCmp(t.nodes_, a, b))).v)
        Located(alive) ==
            IF alive.err # "Ok" THEN [err |-> alive.err, rv |-> <<>>]
            ELSE IF alive.alive = <<>> THEN [err |-> "Ok", rv |-> <<>>]
            ELSE IF \E i \in 1..Len(t.edges_) : t.edges_[i].parent + 1 > Len(t.nodes_)
                 THEN [err |-> "panic", rv |-> <<>>]
            ELSE IF \E i \in 1..Len(alive.alive) : alive.alive[i] + 1 > Len(t.nodes_)
                 THEN [err |-> "panic", rv |-> <<>>]
            ELSE Sorted([i \in 1..Len(alive.alive) |->
                            ParentLocation(alive.alive[i],
                                           EdgeStart(t.edges_, alive.alive[i]),
                                           EdgeStop(t.edges_, alive.alive[i]))])
    IN  Located(AliveWithNewEdges(founders, eb, 1, <<>>))

\* A closure that also stages the segments that merely abut the edge
RECURSIVE EnqueueOverlapsTouching(_, _, _, _)
EnqueueOverlapsTouching(o, segs, left, right) ==
    IF segs = <<>> THEN o
    ELSE LET seg == Head(segs)
         IN  EnqueueOverlapsTouching(
                 IF seg.right >= left /\ right >= seg.left
                 THEN enqueue(o, Max2(seg.left, left), Min2(seg.right, right), seg.node)
                 ELSE o,
                 Tail(segs), left, right)

\* The intervals queue_children's closure stages for the ancestry segments
\* it is called on
RECURSIVE EnqueueOverlaps(_, _, _, _)
EnqueueOverlaps(o, segs, left, right) ==
    IF segs = <<>> THEN o
    ELSE LET seg == Head(segs)
         IN  EnqueueOverlaps(
                 IF seg.right > left /\ right > seg.left
                 THEN enqueue(o, Max2(seg.left, left), Min2(seg.right, right), seg.node)
                 ELSE o,
                 Tail(segs), left, right)

\* queue_children: [err, overlapper]
queue_children(child, left, right, anc, o) ==
    LET Queued(fe) ==
            [err |-> fe.err, overlapper |-> EnqueueOverlaps(o, fe.visited, left, right)]
    IN  Queued(for_each(anc, child, 0))

\* The closure of process_births_from_buffer over the buffered segments
\* visited: queue_children(..).unwrap() panics on an error.  [err, overlapper]
RECURSIVE QueueBirths(_, _, _)
QueueBirths(segs, anc, o) ==
    LET Unwrap(q) ==
            IF q.err # "Ok" THEN [err |-> "panic", overlapper |-> q.overlapper]
            ELSE QueueBirths(Tail(segs), anc, q.overlapper)
    IN  IF segs = <<>> THEN [err |-> "Ok", overlapper |-> o]
        ELSE Unwrap(queue_children(Head(segs).node, Head(segs).left, Head(segs).right,
                                   anc, o))

\* process_births_from_buffer: [err, state, births]; births are the
\* buffered segments the closure was called on
process_births_from_buffer(h, eb, st) ==
    LET Result(fe, q) ==
            [err    |-> IF q.err # "Ok" THEN q.err ELSE fe.err,
             state  |-> [st EXCEPT !.overlapper = q.overlapper],
             births |-> fe.visited]
        Visit(fe) == Result(fe, QueueBirths(fe.visited, st.ancestry, st.overlapper))
    IN  Visit(for_each(eb, h, 0))

\* The edges of parent u from index i on, queued one by one: [err, i, overlapper]
RECURSIVE QueueRun(_, _, _, _, _, _)
QueueRun(es, u, i, stop, anc, o) ==
    LET Queued(q) ==
            IF q.err # "Ok" THEN [err |-> q.err, i |-> i, overlapper |-> q.overlapper]
            ELSE QueueRun(es, u, i + 1, stop, anc, q.overlapper)
    IN  IF ~(i < stop /\ es[i + 1].parent = u)
        THEN [err |-> "Ok", i |-> i, overlapper |-> o]
        ELSE Queued(queue_children(es[i + 1].child, es[i + 1].left, es[i + 1].right,
                                   anc, o))

\* process_parent(u, (edge_i, num_edges), tables, state, output), the
\* single-source merge step: [err, edge_i, state, idmap]
process_parent(u, edge_i, num_edges, t, st, idm) ==
    LET Result(q, m) ==
            [err |-> m.err, edge_i |-> q.i, state |-> m.state, idmap |-> m.idmap]
        Merge(q) ==
            IF q.err # "Ok"
            THEN [err |-> q.err, edge_i |-> q.i,
                  state |-> [st EXCEPT !.overlapper = q.overlapper], idmap |-> idm]
            ELSE Result(q, merge_ancestors(t.nodes_, t.length_, u,
                               [st EXCEPT !.overlapper = finalize_queue(q.overlapper, t.length_)],
                               idm))
    IN  Merge(QueueRun(t.edges_, u, edge_i, num_edges, st.ancestry,
                       clear_queue(st.overlapper)))

\* The body of the step-1 loop for a purely new parent: stage its buffered
\* births, sweep and merge.  [err, state, idmap, births]
DrainHead(h, t, eb, st, idm) ==
    LET Result(b, m) ==
            [err |-> m.err, state |-> m.state, idmap |-> m.idmap, births |-> b.births,
             merged |-> TRUE]
        Merge(b) ==
            IF b.err # "Ok"
            THEN [err |-> b.err, state |-> b.state, idmap |-> idm, births |-> b.births,
                  merged |-> FALSE]
            ELSE Result(b, merge_ancestors(t.nodes_, t.length_, h,
                               [b.state EXCEPT !.overlapper = finalize_queue(@, t.length_)],
                               idm))
    IN  Merge(process_births_from_buffer(h, eb, [st EXCEPT !.overlapper = clear_queue(@)]))

\* A walk over the located run that queues every edge up to stop without
\* looking at its parent
RECURSIVE WalkRunUnchecked(_, _, _, _, _, _)
WalkRunUnchecked(es, parent, i, stop, anc, o) ==
    IF ~(i < stop) THEN [err |-> "Ok", i |-> i, overlapper |-> o]
    ELSE WalkRunUnchecked(es, parent, i + 1, stop, anc,
             queue_children(es[i + 1].child, es[i + 1].left, es[i + 1].right,
                            anc, o).overlapper)

\* The walk over the located run of a split parent: every edge up to stop
\* must be the parent's.  [err, i, overlapper]
RECURSIVE WalkRun(_, _, _, _, _, _)
WalkRun(es, parent, i, stop, anc, o) ==
    LET Queued(q) ==
            IF q.err # "Ok" THEN [err |-> q.err, i |-> i, overlapper |-> q.overlapper]
            ELSE WalkRun(es, parent, i + 1, stop, anc, q.overlapper)
    IN  IF ~(i < stop) THEN [err |-> "Ok", i |-> i, overlapper |-> o]
        ELSE IF i + 1 > Len(es) THEN [err |-> "panic", i |-> i, overlapper |-> o]
        ELSE IF es[i + 1].parent # parent
             THEN [err |-> "SimplificationError", i |-> i, overlapper |-> o]
        ELSE Queued(queue_children(es[i + 1].child, es[i + 1].left, es[i + 1].right,
                                   anc, o))

\* The handling of a split parent in the merged pass: its run of the edge
\* table and its buffered births go into one sweep, merged once.
\* [err, edge_i, state, idmap, births, merged]
MergeSplit(ex, edge_i, num_edges, t, eb, st, idm) ==
    LET Result(w, b, m) ==
            [err |-> m.err, edge_i |-> w.i, state |-> m.state, idmap |-> m.idmap,
             births |-> b.births, merged |-> TRUE]
        Merge(w, b) ==
            IF b.err # "Ok"
            THEN [err |-> b.err, edge_i |-> w.i, state |-> b.state, idmap |-> idm,
                  births |-> b.births, merged |-> FALSE]
            ELSE Result(w, b, merge_ancestors(t.nodes_, t.length_, ex.parent,
                                  [b.state EXCEPT !.overlapper = finalize_queue(@, t.length_)],
                                  idm))
        StageBirths(w) ==
            IF w.err # "Ok"
            THEN [err |-> w.err, edge_i |-> w.i,
                  state |-> [st EXCEPT !.overlapper = w.overlapper],
                  idmap |-> idm, births |-> <<>>, merged |-> FALSE]
            ELSE IF /\ ex.start # UsizeMax
                    /\ w.i < num_edges
                    /\ t.edges_[w.i + 1].parent = ex.parent
            THEN [err |-> "SimplificationError", edge_i |-> w.i,
                  state |-> [st EXCEPT !.overlapper = w.overlapper],
                  idmap |-> idm, births |-> <<>>, merged |-> FALSE]
            ELSE Merge(w, process_births_from_buffer(ex.parent, eb,
                              [st EXCEPT !.overlapper = w.overlapper]))
    IN  StageBirths(IF ex.start # UsizeMax
                    THEN WalkRun(t.edges_, ex.parent, edge_i, ex.stop, st.ancestry,
                                 clear_queue(st.overlapper))
                    ELSE [err |-> "Ok", i |-> edge_i,
                          overlapper |-> clear_queue(st.overlapper)])

\* A max_time that takes no founder into account: with it the step-1 loop
\* drains every buffered parent, the founders included
MaxFounderTimeIgnored(ns, founders, i, acc) == acc

\* The latest birth time among the founders
RECURSIVE MaxFounderTime(_, _, _, _)
MaxFounderTime(ns, founders, i, acc) ==
    IF i > Len(founders) THEN acc
    ELSE MaxFounderTime(ns, founders, i + 1, Max2(acc, ns[founders[i] + 1].time))

\* A commit that swaps the tables and leaves the edge buffer as it is
CommitWithoutReset(t, st, eb) ==
    [tables |-> [t EXCEPT !.edges_ = st.new_edges, !.nodes_ = st.new_nodes],
     state |-> [st EXCEPT !.new_edges = t.edges_, !.new_nodes = t.nodes_],
     edge_buffer |-> eb]

\* The commit: the new tables are swapped in, the edge buffer is reset to
\* the new node count.  [tables, state, edge_buffer]
CommitTables(t, st, eb) ==
    LET se == Swap(t.edges_, st.new_edges)
        sn == Swap(t.nodes_, st.new_nodes)
        t1 == [t EXCEPT !.edges_ = se[1], !.nodes_ = sn[1]]
    IN  [tables |-> t1,
         state |-> [st EXCEPT !.new_edges = se[2], !.new_nodes = sn[2]],
         edge_buffer |-> reset(eb, Len(t1.nodes_))]

\* A record of the merge log: the parent handed to merge_ancestors, the
\* (0-based) indices of the table edges and the buffered births staged for it
MergeRecord(parent, step, from, to, births) ==
    [parent |-> parent, step |-> step,
     edges |-> [k \in 1..(to - from) |-> from + k - 1], births |-> births]

-----------------------------------------------------------------------------
(* The pass as a state machine.                                            *)

\* A return that reports SimplificationError whatever the pass did
DoneAsError(err) ==
    pc' = "done" /\ ret' = [op |-> "simplify_from_edge_buffer",
                            err |-> "SimplificationError", val |-> 0]

\* The return of simplify_from_edge_buffer: Ok, the error value of the `?`
\* that ended the pass, or a panic
Done(err) == pc' = "done" /\ ret' = [op |-> "simplify_from_edge_buffer", err |-> err, val |-> 0]

Logged(rec) == hist' = [hist EXCEPT !.merged = Append(@, rec)]

NumEdges == Len(tables.edges_)
TimeOf(id) == tables.nodes_[id + 1].time

\* simplify_from_edge_buffer, lines 163-169: setup and max_time
SimplifyCall ==
    /\ pc = "idle"
    /\ LET founders == samples.edge_buffer_founder_nodes
           bad == \E i \in 1..Len(founders) :
                      founders[i] < 0 \/ founders[i] + 1 > Len(tables.nodes_)
           Started(s) ==
               /\ state' = s.state
               /\ idmap' = s.idmap
               /\ IF s.err # "Ok" THEN Done(s.err) /\ UNCHANGED loc
                  ELSE IF bad THEN Done("panic") /\ UNCHANGED loc
                  ELSE /\ pc' = "step1"
                       /\ loc' = [loc EXCEPT !.max_time =
                                      MaxFounderTime(tables.nodes_, founders, 1, TimeMin),
                                  !.i = 0]
                       /\ UNCHANGED ret
       IN  Started(setup_simplification(samples, tables, state, idmap))
    /\ UNCHANGED <<tables, edge_buffer, samples, hist>>

\* The parent the step-1 loop looks at in its iteration loc.i
Step1Head == len(edge_buffer) - loc.i - 1

\* lines 170-187: one iteration of the step-1 loop that drains a parent born
\* after max_time
DrainBuffer ==
    /\ pc = "step1"
    /\ loc.i < Len(head_itr(edge_buffer))
    /\ \/ Step1Head + 1 > Len(tables.nodes_)
       \/ TimeOf(Step1Head) > loc.max_time
    /\ LET Drained(h, d) ==
               /\ state' = d.state
               /\ idmap' = d.idmap
               /\ IF d.merged
                  THEN Logged(MergeRecord(h, 1, 0, 0, d.births))
                  ELSE UNCHANGED hist
               /\ IF d.err # "Ok" THEN Done(d.err) /\ UNCHANGED loc
                  ELSE /\ loc' = [loc EXCEPT !.i = @ + 1]
                       /\ UNCHANGED <<pc, ret>>
           At(h) ==
               IF h + 1 > Len(tables.nodes_)
               THEN Done("panic") /\ UNCHANGED <<state, idmap, loc, hist>>
               ELSE Drained(h, DrainHead(h, tables, edge_buffer, state, idmap))
       IN  At(Step1Head)
    /\ UNCHANGED <<tables, edge_buffer, samples>>

\* lines 188-197: the loop ends (exhausted, or at the first parent born no
\* later than max_time) and the split parents are located
LocateSplitParents ==
    /\ pc = "step1"
    /\ \/ ~(loc.i < Len(head_itr(edge_buffer)))
       \/ /\ loc.i < Len(head_itr(edge_buffer))
          /\ Step1Head + 1 <= Len(tables.nodes_)
          /\ TimeOf(Step1Head) <= loc.max_time
    /\ LET Located(f) ==
               IF f.err # "Ok" THEN Done(f.err) /\ UNCHANGED loc
               ELSE /\ pc' = "step3"
                    /\ loc' = [loc EXCEPT !.existing_edges = f.rv, !.ex = 1, !.edge_i = 0,
                                          !.second = FALSE]
                    /\ UNCHANGED ret
       IN  Located(find_pre_existing_edges(tables, samples.edge_buffer_founder_nodes,
                                           edge_buffer))
    /\ UNCHANGED <<tables, edge_buffer, samples, state, idmap, hist>>

\* The split parent the merged pass is at
Ex == loc.existing_edges[loc.ex]

\* A first while loop that never runs: the parents of the table born after a
\* split parent are left for later
FirstWhileSkipped == FALSE

\* The condition of the first while loop before a split parent (lines 200-202)
FirstWhile ==
    /\ ~loc.second
    /\ loc.edge_i < NumEdges
    /\ TimeOf(tables.edges_[loc.edge_i + 1].parent) > TimeOf(Ex.parent)

\* The condition of the second while loop (lines 212-215)
SecondWhile ==
    /\ Ex.start # UsizeMax
    /\ loc.edge_i < Ex.start
    /\ loc.edge_i < NumEdges
    /\ TimeOf(tables.edges_[loc.edge_i + 1].parent) >= TimeOf(Ex.parent)

\* A call of process_parent on the parent of the edge at edge_i
ProcessParentAt(step, second) ==
    LET Processed(u, r) ==
            /\ state' = r.state
            /\ idmap' = r.idmap
            /\ IF r.err # "Ok" THEN Done(r.err) /\ UNCHANGED <<loc, hist>>
               ELSE /\ loc' = [loc EXCEPT !.edge_i = r.edge_i, !.second = second]
                    /\ Logged(MergeRecord(u, step, loc.edge_i, r.edge_i, <<>>))
                    /\ UNCHANGED <<pc, ret>>
        At(u) == Processed(u, process_parent(u, loc.edge_i, NumEdges, tables, state, idmap))
    IN  At(tables.edges_[loc.edge_i + 1].parent)

\* lines 199-225: an ordinary pre-existing parent is processed before the
\* split parent is reached
ProcessParentBeforeSplit ==
    /\ pc = "step3"
    /\ loc.ex <= Len(loc.existing_edges)
    /\ FirstWhile \/ SecondWhile
    /\ ProcessParentAt(3, ~FirstWhile)
    /\ UNCHANGED <<tables, edge_buffer, samples>>

\* lines 226-262: the split parent itself
MergeSplitParent ==
    /\ pc = "step3"
    /\ loc.ex <= Len(loc.existing_edges)
    /\ ~(FirstWhile \/ SecondWhile)
    /\ LET Merged(ex, r) ==
               /\ state' = r.state
               /\ idmap' = r.idmap
               /\ IF r.merged
                  THEN Logged(MergeRecord(ex.parent, 3, loc.edge_i, r.edge_i, r.births))
                  ELSE UNCHANGED hist
               /\ IF r.err # "Ok" THEN Done(r.err) /\ UNCHANGED loc
                  ELSE /\ loc' = [loc EXCEPT !.edge_i = r.edge_i, !.ex = @ + 1,
                                             !.second = FALSE]
                       /\ UNCHANGED <<pc, ret>>
           At(ex) == Merged(ex, MergeSplit(ex, loc.edge_i, NumEdges, tables, edge_buffer,
                                           state, idmap))
       IN  At(Ex)
    /\ UNCHANGED <<tables, edge_buffer, samples>>

\* lines 264-273: the pre-existing parents after the last split parent
DrainRemainder ==
    /\ pc = "step3"
    /\ loc.ex > Len(loc.existing_edges)
    /\ loc.edge_i < NumEdges
    /\ ProcessParentAt(4, FALSE)
    /\ UNCHANGED <<tables, edge_buffer, samples>>

\* lines 275-279: the commit
Commit ==
    /\ pc = "step3"
    /\ loc.ex > Len(loc.existing_edges)
    /\ ~(loc.edge_i < NumEdges)
    /\ LET c == CommitTables(tables, state, edge_buffer)
       IN  /\ tables' = c.tables
           /\ state' = c.state
           /\ edge_buffer' = c.edge_buffer
    /\ Done("Ok")
    /\ UNCHANGED <<samples, idmap, loc, hist>>

-----------------------------------------------------------------------------
(* The inputs of a pass.                                                   *)

NodeIds == 0..(MaxNodes - 1)

\* The node tables: MaxNodes nodes with birth times up to MaxTime; the
\* times in use are 0..k for some k (only their order matters to a pass)
TimeVectors ==
    {tv \in [1..MaxNodes -> 0..MaxTime] :
        \A x \in 0..MaxTime : (\E i \in 1..MaxNodes : tv[i] = x) =>
            \A y \in 0..x : \E i \in 1..MaxNodes : tv[i] = y}

NodeTables == {[i \in 1..MaxNodes |-> Node(tv[i], 0)] : tv \in TimeVectors}

\* A transmission goes from a parent to a child born later.
Transmissions(ns) == {pc2 \in NodeIds \X NodeIds : ns[pc2[2] + 1].time > ns[pc2[1] + 1].time}

\* The rows a pre-existing edge table may hold, in any order
EdgeRows(ns) == {Edge(0, GenomeLength, pc2[1], pc2[2]) : pc2 \in Transmissions(ns)}

\* The births a caller may have logged: a transmission over the genome, or
\* one to a child id that is no node of the table
Births(ns) ==
    {[parent |-> pc2[1], seg |-> Segment(0, GenomeLength, pc2[2])] : pc2 \in Transmissions(ns)}
    \cup {[parent |-> p, seg |-> Segment(0, GenomeLength, MaxNodes)] : p \in NodeIds}

\* The edge tables: up to MaxEdges distinct rows in any order
EdgeTables(ns) ==
    {es \in SeqsUpTo(EdgeRows(ns), MaxEdges) :
        \A i, j \in 1..Len(es) : i < j => es[i] # es[j]}

\* The births logged: up to MaxBuffered distinct births, by parent and child
BirthKey(b) == b.parent * (MaxNodes + 1) + b.seg.node

BirthLogs(ns) ==
    {bs \in SeqsUpTo(Births(ns), MaxBuffered) :
        \A i, j \in 1..Len(bs) : i < j => BirthKey(bs[i]) < BirthKey(bs[j])}

\* The edge buffer after reset(n) and the extend calls of the births logged
RECURSIVE LogBirths(_, _)
LogBirths(eb, bs) ==
    IF bs = <<>> THEN eb
    ELSE LogBirths(extend(eb, Head(bs).parent, Head(bs).seg).list, Tail(bs))

\* The ids of S in ascending order
RECURSIVE Ascending(_)
Ascending(S) ==
    IF S = {} THEN <<>>
    ELSE LET m == CHOOSE x \in S : \A y \in S : x <= y
         IN  <<m>> \o Ascending(S \ {m})

\* The sample lists: the node of the largest id, the nodes but the first, or
\* every node
SampleLists == {<<MaxNodes - 1>>, Ascending(NodeIds \ {0}), Ascending(NodeIds)}

\* The founder lists: any set of nodes, one node listed twice, or an id
\* that is no node
FounderLists == {Ascending(S) : S \in SUBSET NodeIds} \cup {<<0, 0>>, <<-1>>}

NoHistory ==
    [tables |-> NewTables(GenomeLength).tables, edge_buffer |-> NewList, merged |-> <<>>,
     reported |-> <<>>, before |-> [state |-> NewBuffers, idmap |-> <<>>]]

NoLocals ==
    [max_time |-> TimeMin, i |-> 0, existing_edges |-> <<>>, ex |-> 1, edge_i |-> 0,
     second |-> FALSE]

NoReturn == [op |-> "none", err |-> "Ok", val |-> 0]

Init ==
    /\ \E ns \in NodeTables :
         /\ \E es \in EdgeTables(ns) :
              tables = [NewTables(GenomeLength).tables EXCEPT !.nodes_ = ns, !.edges_ = es]
         /\ \E n0 \in {0, MaxNodes} : \E bs \in BirthLogs(ns) :
              edge_buffer = LogBirths(reset(NewList, n0), bs)
    /\ \E ss \in SampleLists : \E fs \in FounderLists :
         samples = [samples |-> ss, edge_buffer_founder_nodes |-> fs]
    /\ state = NewBuffers
    /\ idmap = <<>>
    /\ pc = "idle"
    /\ loc = NoLocals
    /\ ret = NoReturn
    /\ hist = [NoHistory EXCEPT !.tables = tables, !.edge_buffer = edge_buffer]

Next ==
    \/ SimplifyCall
    \/ DrainBuffer
    \/ LocateSplitParents
    \/ ProcessParentBeforeSplit
    \/ MergeSplitParent
    \/ DrainRemainder
    \/ Commit

Spec == Init /\ [][Next]_vars

-----------------------------------------------------------------------------
(* The sweep and the merge on their own: intervals are staged as           *)
(* queue_children stages them, then the queue is finalized and either      *)
(* swept step by step or handed to merge_ancestors for a parent.           *)

SweepLength == 3
MaxQueued == 3
MaxMapped == 2
MaxMerges == 2

\* The intervals that may be staged: any [left, right) of the genome, for
\* any mapped node
StagedIntervals ==
    {Segment(l, r, n) : l \in 0..(SweepLength - 1), r \in 1..SweepLength,
                        n \in 0..(MaxMapped - 1)}

\* The parents merged: a node that is no sample of any sample list, and one
\* that is a sample of every sample list
MergedParents == {0, MaxNodes - 1}

SweepInit ==
    /\ tables = [NewTables(SweepLength).tables EXCEPT
                     !.nodes_ = [i \in 1..MaxNodes |-> Node(MaxNodes - i, 0)]]
    /\ edge_buffer = NewList
    /\ \E ss \in SampleLists : samples = [samples |-> ss, edge_buffer_founder_nodes |-> <<>>]
    /\ state = setup_simplification(samples, tables, NewBuffers, <<>>).state
    /\ idmap = setup_simplification(samples, tables, NewBuffers, <<>>).idmap
    /\ pc = "staging"
    /\ loc = NoLocals
    /\ ret = NoReturn
    /\ hist = [NoHistory EXCEPT !.before = [state |-> state, idmap |-> idmap]]

\* overlapper.enqueue(left, right, mapped_node); at most MaxQueued intervals
\* are staged in all (loc.edge_i counts them)
Enqueue ==
    /\ pc = "staging"
    /\ loc.edge_i < MaxQueued
    /\ \E seg \in StagedIntervals :
           /\ seg.left < seg.right
           /\ state' = [state EXCEPT !.overlapper = enqueue(@, seg.left, seg.right, seg.node)]
    /\ loc' = [loc EXCEPT !.edge_i = @ + 1]
    /\ ret' = [op |-> "enqueue", err |-> "Ok", val |-> 0]
    /\ UNCHANGED <<tables, edge_buffer, samples, idmap, pc, hist>>

\* overlapper.finalize_queue(genome_length)
FinalizeQueue ==
    /\ pc = "staging"
    /\ state' = [state EXCEPT !.overlapper = finalize_queue(@, tables.length_)]
    /\ pc' = "finalized"
    /\ ret' = [op |-> "finalize_queue", err |-> "Ok", val |-> 0]
    /\ hist' = [hist EXCEPT !.reported = <<>>,
                            !.before = [state |-> state, idmap |-> idmap]]
    /\ UNCHANGED <<tables, edge_buffer, samples, idmap, loc>>

\* The start of a sweep over the finalized queue
StartSweep ==
    /\ pc = "finalized"
    /\ state' = [state EXCEPT !.overlapper = overlapper_init(@)]
    /\ pc' = "sweeping"
    /\ ret' = [op |-> "init", err |-> "Ok", val |-> 0]
    /\ UNCHANGED <<tables, edge_buffer, samples, idmap, loc, hist>>

\* One call of the sweep: a sub-interval is reported with its open
\* intervals, or the sweep ends
Advance ==
    /\ pc = "sweeping"
    /\ LET Stepped(a) ==
               /\ state' = [state EXCEPT !.overlapper = a.o]
               /\ IF a.rv
                  THEN /\ hist' = [hist EXCEPT !.reported =
                                      Append(@, [left |-> a.o.left, right |-> a.o.right,
                                                 overlaps |-> a.o.overlapping])]
                       /\ UNCHANGED pc
                  ELSE pc' = "swept" /\ UNCHANGED hist
               /\ ret' = [op |-> "advance", err |-> "Ok", val |-> IF a.rv THEN 1 ELSE 0]
       IN  Stepped(advance(state.overlapper))
    /\ UNCHANGED <<tables, edge_buffer, samples, idmap, loc>>

\* merge_ancestors on the finalized queue, for one of the parents
MergeAncestors ==
    /\ pc = "finalized"
    /\ loc.i < MaxMerges
    /\ \E parent \in MergedParents :
           LET Merged(m) ==
                   /\ state' = m.state
                   /\ idmap' = m.idmap
                   /\ ret' = [op |-> "merge_ancestors", err |-> m.err, val |-> parent]
           IN  Merged(merge_ancestors(tables.nodes_, tables.length_, parent, state, idmap))
    /\ pc' = "merged"
    /\ loc' = [loc EXCEPT !.i = @ + 1]
    /\ hist' = [hist EXCEPT !.before = [state |-> state, idmap |-> idmap]]
    /\ UNCHANGED <<tables, edge_buffer, samples>>

\* overlapper.clear_queue(): the next parent's intervals are staged
ClearQueue ==
    /\ pc = "merged"
    /\ ret.err = "Ok"
    /\ state' = [state EXCEPT !.overlapper = clear_queue(@)]
    /\ pc' = "staging"
    /\ ret' = [op |-> "clear_queue", err |-> "Ok", val |-> 0]
    /\ UNCHANGED <<tables, edge_buffer, samples, idmap, loc, hist>>

SweepNext ==
    \/ Enqueue
    \/ FinalizeQueue
    \/ StartSweep
    \/ Advance
    \/ MergeAncestors
    \/ ClearQueue

SpecSweep == SweepInit /\ [][SweepNext]_vars

-----------------------------------------------------------------------------
(* The table collection on its own: rows are added, then the tables are    *)
(* sorted for simplification.                                              *)

\* The rows of all tables together (at most MaxRows are added)
NumRows(t) == Len(t.nodes_) + Len(t.edges_) + Len(t.sites_) + Len(t.mutations_)

\* The result of a call on the table collection
Returned(op, r) ==
    /\ tables' = r.tables
    /\ ret' = [op |-> op, err |-> r.err, val |-> r.val]

\* TableCollection::new(genome_length): a length below 1 is rejected and
\* there is no collection to build
TablesInit ==
    /\ \E genome_length \in {0, GenomeLength} :
           LET Created(r) ==
                   /\ tables = r.tables
                   /\ pc = IF r.err = "Ok" THEN "building" ELSE "done"
                   /\ ret = IF r.err = "Ok" THEN NoReturn
                            ELSE [op |-> "new", err |-> r.err, val |-> 0]
           IN  Created(NewTables(genome_length))
    /\ edge_buffer = NewList
    /\ samples = [samples |-> <<>>, edge_buffer_founder_nodes |-> <<>>]
    /\ state = NewBuffers
    /\ idmap = <<>>
    /\ loc = NoLocals
    /\ hist = NoHistory

\* tables.add_node(time, deme)
AddNode ==
    /\ pc = "building"
    /\ NumRows(tables) < MaxRows
    /\ \E time \in (-1)..MaxTableTime : \E deme \in {-1, 0} :
           Returned("add_node", add_node(tables, time, deme))
    /\ UNCHANGED <<edge_buffer, samples, state, idmap, pc, loc, hist>>

\* tables.add_edge(left, right, parent, child)
AddEdge ==
    /\ pc = "building"
    /\ NumRows(tables) < MaxRows
    /\ \E left \in (-1)..(GenomeLength - 1) : \E right \in 0..GenomeLength :
       \E parent \in (-1)..(MaxNodes - 1) : \E child \in (-1)..1 :
           Returned("add_edge", add_edge(tables, left, right, parent, child))
    /\ UNCHANGED <<edge_buffer, samples, state, idmap, pc, loc, hist>>

\* tables.add_site(position, ancestral_state)
AddSite ==
    /\ pc = "building"
    /\ NumRows(tables) < MaxRows
    /\ \E position \in (-1)..GenomeLength :
           Returned("add_site", add_site(tables, position, 0))
    /\ UNCHANGED <<edge_buffer, samples, state, idmap, pc, loc, hist>>

\* tables.add_mutation(node, key, site, derived_state, neutral)
AddMutation ==
    /\ pc = "building"
    /\ NumRows(tables) < MaxRows
    /\ \E node \in {-1, 0} : \E site \in 0..1 :
           Returned("add_mutation", add_mutation(tables, node, 0, site, 0, TRUE))
    /\ UNCHANGED <<edge_buffer, samples, state, idmap, pc, loc, hist>>

\* tables.sort_tables_for_simplification(); hist.tables keeps the tables
\* the call was made on
SortTables ==
    /\ pc \in {"building", "sorted"}
    /\ LET Sorted(r) ==
               /\ tables' = r.tables
               /\ ret' = [op |-> "sort_tables_for_simplification",
                          err |-> IF r.panic THEN "panic" ELSE "Ok", val |-> 0]
               /\ pc' = IF r.panic THEN "done" ELSE "sorted"
       IN  \E r \in sort_tables_for_simplification(tables) : Sorted(r)
    /\ hist' = [hist EXCEPT !.tables = tables]
    /\ UNCHANGED <<edge_buffer, samples, state, idmap, loc>>

TablesNext ==
    \/ AddNode
    \/ AddEdge
    \/ AddSite
    \/ AddMutation
    \/ SortTables

SpecTables == TablesInit /\ [][TablesNext]_vars

-----------------------------------------------------------------------------
(* Calls of add_edge on their own, each recorded with its arguments.       *)

\* Largest number of rows of the edge table built by add_edge calls alone.
MaxEdgeRows == 2

EdgesInit ==
    /\ pc = "edges"
    /\ ret = [op |-> "new", err |-> "Ok", val |-> 0, at |-> Edge(0, 0, 0, 0)]
    /\ tables = NewTables(GenomeLength).tables
    /\ edge_buffer = NewList
    /\ samples = [samples |-> <<>>, edge_buffer_founder_nodes |-> <<>>]
    /\ state = NewBuffers
    /\ idmap = <<>>
    /\ loc = NoLocals
    /\ hist = NoHistory

\* tables.add_edge(left, right, parent, child); ret.at keeps the arguments
AddEdgeCall ==
    /\ pc = "edges"
    /\ Len(tables.edges_) < MaxEdgeRows
    /\ \E left \in (-1)..GenomeLength : \E right \in (-1)..GenomeLength :
       \E parent \in (-1)..1 : \E child \in (-1)..1 :
           LET Called(r) ==
                   /\ tables' = r.tables
                   /\ ret' = [op |-> "add_edge", err |-> r.err, val |-> r.val,
                              at |-> Edge(left, right, parent, child)]
           IN  Called(add_edge(tables, left, right, parent, child))
    /\ UNCHANGED <<edge_buffer, samples, state, idmap, pc, loc, hist>>

EdgesNext == AddEdgeCall

SpecEdges == EdgesInit /\ [][EdgesNext]_vars

-----------------------------------------------------------------------------
(* A NestedForwardList<i32> on its own, under any sequence of calls of its *)
(* public operations.  The list is edge_buffer; ret keeps the last call    *)
(* (op, its key or record index at, its result); hist keeps what the       *)
(* caller knows from its own calls:                                        *)
(*   lists[k + 1]  the records appended to list k since it was last empty, *)
(*                 in the order of the extend calls (the n-th record ever  *)
(*                 appended since the last wipe has index n - 1),          *)
(*   written[r+1]  the value last stored in record r (extend, fetch_mut),  *)
(*   extended      the keys extended since the last reset/clear/new,       *)
(*   size          the n of the last reset(n) (0 after new and clear),     *)
(*   detached      the records the last nullify_list took from its list,   *)
(*   before        the list, and the keys extended, before the last call.  *)

\* Largest list key of a call; reset sizes go up to MaxKey + 1.
MaxKey == 2
\* Largest number of records.
MaxRecords == 3
\* Values are 0..MaxValue.
MaxValue == 1

ListKeys == (-1)..(MaxKey + 1)
RecordIndices == (-1)..MaxRecords
ListValues == 0..MaxValue

\* The list and the keys extended as they are when a call is made
BeforeCall == [list |-> edge_buffer, extended |-> hist.extended]

ListHistory(lists, written, extended, size, detached) ==
    [lists |-> lists, written |-> written, extended |-> extended, size |-> size,
     detached |-> detached, before |-> BeforeCall]

\* The caller's record after a call that was rejected or only read
SameHistory == [hist EXCEPT !.before = BeforeCall]

ListReturn(op, at, err, val) == [op |-> op, at |-> at, err |-> err, val |-> val]

\* The keys head_itr().rev().enumerate() visits, as the driver computes
\* them: len() - i - 1 for the i-th head yielded
HeadsDescending(l) == [i \in 1..Len(head_itr(l)) |-> len(l) - (i - 1) - 1]

ListInit ==
    /\ edge_buffer = NewList
    /\ ret = ListReturn("new", 0, "Ok", 0)
    /\ hist = [lists |-> <<>>, written |-> <<>>, extended |-> {}, size |-> 0,
               detached |-> <<>>, before |-> [list |-> NewList, extended |-> {}]]
    /\ pc = "list"
    /\ tables = NewTables(GenomeLength).tables
    /\ samples = [samples |-> <<>>, edge_buffer_founder_nodes |-> <<>>]
    /\ state = NewBuffers
    /\ idmap = <<>>
    /\ loc = NoLocals

ListFrame == UNCHANGED <<tables, samples, state, idmap, pc, loc>>

\* list.reset(n)
ListReset ==
    /\ pc = "list"
    /\ \E n \in 0..(MaxKey + 1) :
           /\ edge_buffer' = reset(edge_buffer, n)
           /\ ret' = ListReturn("reset", n, "Ok", 0)
           /\ hist' = ListHistory([i \in 1..n |-> <<>>], <<>>, {}, n, <<>>)
    /\ ListFrame

\* list.clear()
ListClear ==
    /\ pc = "list"
    /\ edge_buffer' = clear(edge_buffer)
    /\ ret' = ListReturn("clear", 0, "Ok", 0)
    /\ hist' = ListHistory(<<>>, <<>>, {}, 0, <<>>)
    /\ ListFrame

\* list.extend(k, v)
ListExtend ==
    /\ pc = "list"
    /\ Len(edge_buffer.data_) < MaxRecords
    /\ \E k \in (-1)..MaxKey : \E v \in ListValues :
           LET Called(r) ==
                   /\ edge_buffer' = r.list
                   /\ ret' = ListReturn("extend", k, r.err, v)
                   /\ hist' =
                        IF r.err # "Ok" THEN SameHistory
                        ELSE ListHistory(
                                 [Resize(hist.lists, Max2(Len(hist.lists), k + 1), <<>>)
                                     EXCEPT ![k + 1] = Append(@, Len(hist.written))],
                                 Append(hist.written, v),
                                 hist.extended \cup {k}, hist.size, <<>>)
           IN  Called(extend(edge_buffer, k, v))
    /\ ListFrame

\* *list.fetch_mut(at)? = v
ListFetchMut ==
    /\ pc = "list"
    /\ \E at \in RecordIndices : \E v \in ListValues :
           LET Called(r) ==
                   /\ edge_buffer' = r.list
                   /\ ret' = ListReturn("fetch_mut", at, r.err, v)
                   /\ hist' =
                        IF r.err # "Ok" THEN SameHistory
                        ELSE [hist EXCEPT !.written[at + 1] = v, !.detached = <<>>,
                                          !.before = BeforeCall]
           IN  Called(fetch_mut(edge_buffer, at, v))
    /\ ListFrame

\* list.nullify_list(at)
ListNullify ==
    /\ pc = "list"
    /\ \E at \in ListKeys :
           LET Called(r) ==
                   /\ edge_buffer' = r.list
                   /\ ret' = ListReturn("nullify_list", at, r.err, 0)
                   /\ hist' =
                        IF r.err # "Ok" THEN SameHistory
                        ELSE [hist EXCEPT !.lists[at + 1] = <<>>,
                                          !.detached = hist.lists[at + 1],
                                          !.before = BeforeCall]
           IN  Called(nullify_list(edge_buffer, at))
    /\ ListFrame

\* The last call was one that may write the list.  A read leaves the list
\* and the caller's record as they are, so the calls that may follow a read
\* are those that may follow the write before it, with the same outcomes:
\* every read is taken right after a write.
AfterWrite == ret.op \in {"new", "reset", "clear", "extend", "fetch_mut", "nullify_list"}

\* A call that only reads the list
ListRead(op, at, r) ==
    /\ AfterWrite
    /\ ret' = ListReturn(op, at, r.err, r.val)
    /\ hist' = SameHistory
    /\ UNCHANGED edge_buffer

\* list.head(at)
ListHead ==
    /\ pc = "list"
    /\ \E at \in ListKeys : ListRead("head", at, head(edge_buffer, at))
    /\ ListFrame

\* list.tail(at)
ListTail ==
    /\ pc = "list"
    /\ \E at \in ListKeys : ListRead("tail", at, tail(edge_buffer, at))
    /\ ListFrame

\* list.next(at)
ListNextRecord ==
    /\ pc = "list"
    /\ \E at \in RecordIndices : ListRead("next", at, next(edge_buffer, at))
    /\ ListFrame

\* list.fetch(at)
ListFetch ==
    /\ pc = "list"
    /\ \E at \in RecordIndices : ListRead("fetch", at, fetch(edge_buffer, at))
    /\ ListFrame

\* list.for_each(at, f) with a visitor that returns false on its stop-th
\* call (never, for stop = 0); ret.val is what the visitor was called on
ListForEach ==
    /\ pc = "list"
    /\ AfterWrite
    /\ \E at \in ListKeys : \E stop \in 0..2 :
           LET Called(r) ==
                   /\ ret' = [op |-> "for_each", at |-> at, err |-> r.err,
                              val |-> r.visited, stop |-> stop]
                   /\ hist' = SameHistory
                   /\ UNCHANGED edge_buffer
           IN  Called(for_each(edge_buffer, at, stop))
    /\ ListFrame

\* for (i, _) in list.head_itr().rev().enumerate(): ret.val is the keys
\* len() - i - 1 visited
ListHeadItr ==
    /\ pc = "list"
    /\ AfterWrite
    /\ ret' = ListReturn("head_itr", 0, "Ok", HeadsDescending(edge_buffer))
    /\ hist' = SameHistory
    /\ UNCHANGED edge_buffer
    /\ ListFrame

ListNext ==
    \/ ListReset
    \/ ListClear
    \/ ListExtend
    \/ ListFetchMut
    \/ ListNullify
    \/ ListHead
    \/ ListTail
    \/ ListNextRecord
    \/ ListFetch
    \/ ListForEach
    \/ ListHeadItr

SpecList == ListInit /\ [][ListNext]_vars

-----------------------------------------------------------------------------
(* The properties of a pass.                                               *)

\* The pass has returned Ok
PassOk == pc = "done" /\ ret.op = "simplify_from_edge_buffer" /\ ret.err = "Ok"

\* The pass has returned an error value
PassErr ==
    pc = "done" /\ ret.op = "simplify_from_edge_buffer" /\ ret.err \notin {"Ok", "panic"}

\* The documented order of the pre-existing edge table: parent birth time
\* descending, ties by parent id, then by left
SortedAsRequired(t) ==
    \A i \in 1..(Len(t.edges_) - 1) :
        LET a == t.edges_[i]
            b == t.edges_[i + 1]
            ta == t.nodes_[a.parent + 1].time
            tb == t.nodes_[b.parent + 1].time
        IN  \/ ta > tb
            \/ ta = tb /\ a.parent < b.parent
            \/ ta = tb /\ a.parent = b.parent /\ a.left <= b.left

\* The (0-based) indices of the edges of parent p in the table the pass was
\* called on, and the segments buffered for p in the buffer it was called on
TableEdgesOf(p) ==
    {i \in 0..(Len(hist.tables.edges_) - 1) : hist.tables.edges_[i + 1].parent = p}

BufferedOf(p) ==
    IF p < len(hist.edge_buffer) THEN for_each(hist.edge_buffer, p, 0).visited ELSE <<>>

\* The positions of the merge log at which parent p was handed to the
\* sweep+merge step
MergesOf(p) == {k \in 1..Len(hist.merged) : hist.merged[k].parent = p}

\* p was merged exactly once, in a sweep that staged all its table edges and
\* all its buffered segments
MergedOnceWithBoth(p) ==
    \E k \in 1..Len(hist.merged) :
        /\ MergesOf(p) = {k}
        /\ Range(hist.merged[k].edges) = TableEdgesOf(p)
        /\ hist.merged[k].births = BufferedOf(p)

EveryParentMergedOnce ==
    \A p \in NodeIds :
        (TableEdgesOf(p) # {} \/ BufferedOf(p) # <<>>) => MergedOnceWithBoth(p)

\* C1 as stated: in a successful pass over an edge table sorted as required,
\* every parent with an edge in the table or a buffered segment is handed to
\* the sweep+merge step exactly once, with both its sources in that sweep.
C1_AsStated == (PassOk /\ SortedAsRequired(hist.tables)) => EveryParentMergedOnce

\* How a caller is meant to use the pass: the founders are the nodes known
\* before it, listed once each; max_time separates them from the nodes born
\* since, which have the larger ids and no edge in the table yet.
FounderTimeOfCall ==
    LET times == {hist.tables.nodes_[f + 1].time :
                      f \in Range(samples.edge_buffer_founder_nodes) \cap NodeIds}
    IN  IF times = {} THEN TimeMin ELSE CHOOSE x \in times : \A y \in times : y <= x

BornSince(p) == hist.tables.nodes_[p + 1].time > FounderTimeOfCall

FoundersAsDocumented ==
    LET founders == samples.edge_buffer_founder_nodes
    IN  /\ \A i, j \in 1..Len(founders) : i < j => founders[i] # founders[j]
        /\ \A p \in NodeIds :
               (BufferedOf(p) # <<>> /\ ~BornSince(p)) => p \in Range(founders)
        /\ \A p \in NodeIds : BornSince(p) => TableEdgesOf(p) = {}
        /\ \A p, q \in NodeIds : (BornSince(p) /\ ~BornSince(q)) => p > q

\* C1 (amended): in a successful pass over an edge table sorted as required,
\* called with the founders as documented, every parent with an edge in the
\* table or a buffered segment is handed to the sweep+merge step exactly
\* once, in a sweep that staged both its table edges and its buffered
\* segments.
C1_MergedOnce ==
    (PassOk /\ SortedAsRequired(hist.tables) /\ FoundersAsDocumented)
        => EveryParentMergedOnce

\* A successful documented pass in which a parent present in both sources was
\* merged in one sweep, after a parent born since the founders was drained
C1_Witness ==
    /\ PassOk /\ SortedAsRequired(hist.tables) /\ FoundersAsDocumented
    /\ \E p \in NodeIds :
           TableEdgesOf(p) # {} /\ BufferedOf(p) # <<>> /\ MergedOnceWithBoth(p)
    /\ \E q \in NodeIds : BornSince(q) /\ BufferedOf(q) # <<>> /\ MergedOnceWithBoth(q)

\* The birth time of a node of the tables the pass was called on
TimeAtCall(p) == hist.tables.nodes_[p + 1].time

\* A parent in either source of the pass
HasWork(p) == TableEdgesOf(p) # {} \/ BufferedOf(p) # <<>>

\* The children staged for the sweep of a record of the merge log
ChildrenOf(rec) ==
    {hist.tables.edges_[i + 1].child : i \in Range(rec.edges)}
    \cup {rec.births[j].node : j \in 1..Len(rec.births)}

\* The parents merged so far are in non-increasing order of birth time
MergeTimesDescend ==
    \A k \in 1..(Len(hist.merged) - 1) :
        TimeAtCall(hist.merged[k].parent) >= TimeAtCall(hist.merged[k + 1].parent)

\* Every child staged for a merge that is itself a parent in either source
\* was merged before
ChildrenResolved ==
    \A k \in 1..Len(hist.merged) : \A c \in ChildrenOf(hist.merged[k]) \cap NodeIds :
        HasWork(c) => \E j \in 1..(k - 1) : hist.merged[j].parent = c

\* C2 as stated: within one pass the parents handed to the sweep+merge step
\* have non-increasing birth times across all driver steps, and every staged
\* child that is a parent in either source has been merged before.
C2_AsStated == MergeTimesDescend /\ ChildrenResolved

\* The nodes born since the founders have ids in the order of their births
NewIdsInBirthOrder ==
    \A p, q \in NodeIds :
        (BornSince(p) /\ BornSince(q) /\ p < q) => TimeAtCall(p) <= TimeAtCall(q)

\* C2 (amended): in a pass over an edge table sorted as required, called with
\* the founders as documented and with the nodes born since numbered in birth
\* order, the parents handed to the sweep+merge step have non-increasing
\* birth times across all driver steps, and every staged child that is a
\* parent in either source has been merged before.
C2_TimeDescending ==
    (SortedAsRequired(hist.tables) /\ FoundersAsDocumented /\ NewIdsInBirthOrder)
        => (MergeTimesDescend /\ ChildrenResolved)

\* A documented pass whose merge log goes from the buffer drain to the merged
\* pass with a strictly earlier parent, whose staged child was merged before
C2_Witness ==
    /\ PassOk /\ SortedAsRequired(hist.tables) /\ FoundersAsDocumented /\ NewIdsInBirthOrder
    /\ \E k \in 1..(Len(hist.merged) - 1) :
           /\ hist.merged[k].step = 1
           /\ hist.merged[k + 1].step = 3
           /\ TimeAtCall(hist.merged[k].parent) > TimeAtCall(hist.merged[k + 1].parent)
           /\ hist.merged[k].parent \in ChildrenOf(hist.merged[k + 1])
           /\ HasWork(hist.merged[k].parent)

\* C3: when the pass returns Ok, the node and edge tables of the collection
\* are the tables the pass built (the previous ones are swapped out into the
\* buffers), and the edge buffer is reset: as long as the new node table and
\* every list of it empty.
C3_CommitOnOk ==
    [][(pc # "done" /\ pc' = "done" /\ ret'.err = "Ok")
        => /\ tables'.nodes_ = state.new_nodes
           /\ tables'.edges_ = state.new_edges
           /\ state'.new_nodes = tables.nodes_
           /\ state'.new_edges = tables.edges_
           /\ len(edge_buffer') = Len(state.new_nodes)
           /\ \A p \in 0..(len(edge_buffer') - 1) : for_each(edge_buffer', p, 0).visited = <<>>
           /\ \A i \in 1..Len(edge_buffer'.head_) :
                  edge_buffer'.head_[i] = Null /\ edge_buffer'.tail_[i] = Null
           /\ edge_buffer'.next_ = <<>> /\ edge_buffer'.data_ = <<>>]_vars

\* A successful pass that replaced a table with edges by a smaller one with
\* edges and emptied a buffer that held births
C3_Witness ==
    /\ PassOk
    /\ tables.edges_ # <<>>
    /\ Len(tables.nodes_) < Len(hist.tables.nodes_)
    /\ hist.tables.edges_ # <<>>
    /\ hist.edge_buffer.data_ # <<>>
    /\ len(edge_buffer) = Len(tables.nodes_)

\* C4: unless the pass has returned Ok, the node and edge tables and the edge
\* buffer are what they were when it was called; in particular a pass that
\* returns an error leaves them untouched.
C4_UntouchedOnError ==
    ~PassOk => (tables = hist.tables /\ edge_buffer = hist.edge_buffer)

\* A pass that failed after a merge had emitted output edges
C4_Witness ==
    /\ PassErr
    /\ hist.merged # <<>>
    /\ state.new_edges # <<>>
    /\ hist.edge_buffer.data_ # <<>>
    /\ tables = hist.tables

\* A NestedForwardList failure met while the buffered children of h are
\* queued: h is no key of the edge buffer, or a buffered segment of h names a
\* child that is no key of the ancestry tracker
ListFailureWhileQueuing(h) ==
    \/ head(edge_buffer, h).err # "Ok"
    \/ \E j \in 1..Len(for_each(edge_buffer, h, 0).visited) :
           head(state.ancestry, for_each(edge_buffer, h, 0).visited[j].node).err # "Ok"

\* C5 as stated: during a pass, every NestedForwardList failure met while a
\* buffered parent's children are queued (an invalid parent key, or an
\* invalid child id in a buffered segment) comes back from
\* process_births_from_buffer as an error value, and the pass never ends
\* abnormally on it.
C5_AsStated ==
    /\ pc \in {"step1", "step3"} =>
           \A h \in (-1)..len(edge_buffer) :
               ListFailureWhileQueuing(h) =>
                   process_births_from_buffer(h, edge_buffer, state).err \notin {"Ok", "panic"}
    /\ ~(/\ pc = "done"
         /\ ret.err = "panic"
         /\ \E p \in NodeIds : \E j \in 1..Len(BufferedOf(p)) :
                BufferedOf(p)[j].node \notin NodeIds)

\* The part of C5 the code keeps: an invalid parent key comes back as an
\* error value (the case of test_process_births_from_buffer_closure_error)
C5_InvalidParentKey ==
    pc \in {"step1", "step3"} =>
        process_births_from_buffer(-1, edge_buffer, state).err = "InvalidIndex"

\* The founders with buffered segments that have a run in the edge table
RunStart(p) == EdgeStart(tables.edges_, p)

SplitInTable(p) ==
    /\ p \in Range(samples.edge_buffer_founder_nodes) \cap NodeIds
    /\ head(edge_buffer, p).err = "Ok" /\ head(edge_buffer, p).val # Null
    /\ RunStart(p) # UsizeMax

\* Two such runs in the wrong order: the earlier run's parent is born before
\* the later run's parent
MisSortedRuns ==
    \E a, b \in NodeIds :
        /\ SplitInTable(a) /\ SplitInTable(b)
        /\ RunStart(a) < RunStart(b)
        /\ TimeOf(a) < TimeOf(b)

\* C6 as stated: when the runs of two founders with buffered edges are in
\* the table in the wrong order of birth times, find_pre_existing_edges
\* fails with SimplificationError.
C6_AsStated ==
    (pc = "step1" /\ MisSortedRuns) =>
        find_pre_existing_edges(tables, samples.edge_buffer_founder_nodes,
                                edge_buffer).err = "SimplificationError"

\* What the code does on such a table: find_pre_existing_edges returns its
\* locations, sorted by itself, and never fails on their order
C6_CheckNeverFires ==
    pc = "step1" =>
        find_pre_existing_edges(tables, samples.edge_buffer_founder_nodes,
                                edge_buffer).err # "SimplificationError"

\* The located run of the split parent the merged pass is at is not one run
\* of that parent: a foreign edge inside it, or an edge of the parent right
\* after it
RunMismatch ==
    /\ Ex.start # UsizeMax
    /\ \/ \E i \in Ex.start..(Ex.stop - 1) : tables.edges_[i + 1].parent # Ex.parent
       \/ Ex.stop < NumEdges /\ tables.edges_[Ex.stop + 1].parent = Ex.parent

AtSplitParent ==
    pc = "step3" /\ loc.ex <= Len(loc.existing_edges) /\ ~(FirstWhile \/ SecondWhile)

\* C7: when the merged pass reaches a split parent whose located run holds an
\* edge of another parent, or is followed by an edge of that parent, the pass
\* returns SimplificationError and the parent is not merged.
C7_RunMismatchIsError ==
    [][(AtSplitParent /\ RunMismatch)
        => (pc' = "done" /\ ret'.err = "SimplificationError" /\ hist'.merged = hist.merged)]_vars

\* A pass that ended with SimplificationError at a split parent whose run
\* holds an edge of another parent
C7_Witness ==
    /\ pc = "done" /\ ret.err = "SimplificationError"
    /\ loc.ex <= Len(loc.existing_edges)
    /\ RunMismatch
    /\ \A k \in 1..Len(hist.merged) : hist.merged[k].parent # Ex.parent

-----------------------------------------------------------------------------
(* The properties of the sweep and the merge.                              *)

\* The finalized queue without its sentinel
QueuedFor(o) == SubSeq(o.segment_queue, 1, Len(o.segment_queue) - 1)

\* The intervals of q that cover position x
Covering(q, x) == {i \in 1..Len(q) : q[i].left <= x /\ x < q[i].right}

\* The merge step just taken, seen from the state after it
MergeStep == pc = "finalized" /\ pc' = "merged" /\ ret'.op = "merge_ancestors"

NodesAllocated == Len(state'.new_nodes) - Len(state.new_nodes)

EdgesEmitted == SubSeq(state'.new_edges, Len(state.new_edges) + 1, Len(state'.new_edges))

\* C8: a call of merge_ancestors allocates at most one output node for its
\* parent, only if some sub-interval has two or more active nodes while
\* idmap[parent] is unset; an idmap[parent] that is set is kept, so no later
\* call allocates another; and every edge emitted for a coalescing
\* sub-interval has idmap[parent] as its parent.
C8_OneOutputNodePerParent ==
    [][MergeStep =>
        LET parent == ret'.val
            q == QueuedFor(state.overlapper)
        IN  /\ NodesAllocated \in {0, 1}
            /\ NodesAllocated = 1 =>
                   /\ idmap[parent + 1] = Null
                   /\ \E x \in 0..(tables.length_ - 1) : Cardinality(Covering(q, x)) >= 2
                   /\ idmap'[parent + 1] = Len(state'.new_nodes) - 1
                   /\ state'.new_nodes[Len(state'.new_nodes)] = tables.nodes_[parent + 1]
            /\ idmap[parent + 1] # Null => idmap' = idmap
            /\ \A i \in 1..Len(idmap) : i # parent + 1 => idmap'[i] = idmap[i]
            /\ SubSeq(state'.new_edges, 1, Len(state.new_edges)) = state.new_edges
            /\ \A k \in 1..Len(EdgesEmitted) :
                   Cardinality(Covering(q, EdgesEmitted[k].left)) >= 2
                       => (idmap'[parent + 1] # Null
                           /\ EdgesEmitted[k].parent = idmap'[parent + 1])]_vars

\* A merge that allocated the parent's output node and emitted the edges of
\* two coalescing sub-intervals under it
C8_Witness ==
    /\ pc = "merged" /\ ret.op = "merge_ancestors" /\ ret.err = "Ok"
    /\ Len(state.new_nodes) = Len(hist.before.state.new_nodes) + 1
    /\ hist.before.idmap[ret.val + 1] = Null
    /\ idmap[ret.val + 1] = Len(state.new_nodes) - 1
    /\ \E j, k \in (Len(hist.before.state.new_edges) + 1)..Len(state.new_edges) :
           /\ state.new_edges[j].left < state.new_edges[k].left
           /\ state.new_edges[j].parent = idmap[ret.val + 1]
           /\ state.new_edges[k].parent = idmap[ret.val + 1]
           /\ Cardinality(Covering(QueuedFor(hist.before.state.overlapper),
                                   state.new_edges[j].left)) >= 2
           /\ Cardinality(Covering(QueuedFor(hist.before.state.overlapper),
                                   state.new_edges[k].left)) >= 2

\* The intervals staged for the sweep under way, as they were enqueued
Staged == hist.before.state.overlapper.segment_queue

\* The breakpoints: every staged left and right
Breakpoints ==
    {Staged[i].left : i \in 1..Len(Staged)} \cup {Staged[i].right : i \in 1..Len(Staged)}

\* The sub-intervals between consecutive breakpoints that some staged
\* interval covers
CoveredSubIntervals ==
    {lr \in Breakpoints \X Breakpoints :
        /\ lr[1] < lr[2]
        /\ \A b \in Breakpoints : ~(lr[1] < b /\ b < lr[2])
        /\ Covering(Staged, lr[1]) # {}}

\* What the sweep has reported so far is right: sub-intervals between
\* consecutive breakpoints, left to right and disjoint, each with one open
\* interval per staged interval that covers it, so with exactly their nodes
ReportedRight ==
    /\ \A k \in 1..Len(hist.reported) :
           LET rep == hist.reported[k]
           IN  /\ <<rep.left, rep.right>> \in CoveredSubIntervals
               /\ Len(rep.overlaps) = Cardinality(Covering(Staged, rep.left))
               /\ \A i \in 1..Len(rep.overlaps) :
                      \E j \in Covering(Staged, rep.left) : rep.overlaps[i] = Staged[j]
               /\ {rep.overlaps[i].node : i \in 1..Len(rep.overlaps)}
                      = {Staged[j].node : j \in Covering(Staged, rep.left)}
    /\ \A k \in 1..(Len(hist.reported) - 1) :
           hist.reported[k].right <= hist.reported[k + 1].left

\* C9: for any batch of enqueued intervals, the sweep after finalize_queue
\* reports, left to right, the pairwise disjoint sub-intervals between
\* consecutive breakpoints, each with exactly the mapped nodes of the
\* enqueued intervals that cover it; a sub-interval nothing covers is not
\* reported, and nothing is reported when nothing was enqueued.
C9_SweepReports ==
    /\ pc \in {"sweeping", "swept"} => ReportedRight
    /\ pc = "swept" => Len(hist.reported) = Cardinality(CoveredSubIntervals)
    /\ (pc = "swept" /\ Staged = <<>>) => hist.reported = <<>>

\* A finished sweep over intervals enqueued out of order that reported a
\* coalescing sub-interval and skipped a gap
C9_Witness ==
    /\ pc = "swept"
    /\ Len(hist.reported) >= 2
    /\ \E i \in 1..(Len(Staged) - 1) : Staged[i].left > Staged[i + 1].left
    /\ \E k \in 1..Len(hist.reported) :
           Cardinality({hist.reported[k].overlaps[i].node :
                            i \in 1..Len(hist.reported[k].overlaps)}) >= 2
    /\ \E k \in 1..(Len(hist.reported) - 1) :
           hist.reported[k].right < hist.reported[k + 1].left

-----------------------------------------------------------------------------
(* The properties of the table collection.                                 *)

\* The tables have just been sorted, and every edge's parent is a node
SortedNow ==
    /\ pc = "sorted"
    /\ ret.op = "sort_tables_for_simplification"
    /\ \A i \in 1..Len(tables.edges_) : tables.edges_[i].parent + 1 <= Len(tables.nodes_)

\* v is a permutation of w
IsPermutation(v, w) ==
    /\ Len(v) = Len(w)
    /\ \A x \in Range(v) \cup Range(w) :
           Cardinality({i \in 1..Len(v) : v[i] = x}) = Cardinality({i \in 1..Len(w) : w[i] = x})

\* The edges are in non-increasing order of parent birth time
ParentTimesDescend(t) ==
    \A i \in 1..(Len(t.edges_) - 1) :
        t.nodes_[t.edges_[i].parent + 1].time >= t.nodes_[t.edges_[i + 1].parent + 1].time

\* C10 as stated: after sort_tables_for_simplification the edge table is a
\* permutation of its previous contents ordered by parent birth time
\* descending, ties by parent id, then by left; in particular the parent
\* times of consecutive edges do not increase.
C10_AsStated ==
    SortedNow => /\ IsPermutation(tables.edges_, hist.tables.edges_)
                 /\ SortedAsRequired(tables)
                 /\ ParentTimesDescend(tables)

\* What the code keeps of C10: the sorted edge table is a permutation of the
\* previous one
C10_Permutation ==
    SortedNow => IsPermutation(tables.edges_, hist.tables.edges_)

\* The weakest reading of C10, the parent times alone, fails as well
C10_TimesOnly == SortedNow => ParentTimesDescend(tables)

\* The argument is rejected by add_edge: an empty or reversed interval, or a
\* negative position or node id
EdgeRejected(left, right, parent, child) ==
    right <= left \/ left < 0 \/ right < 0 \/ parent < 0 \/ child < 0

\* What C11 asks of a call add_edge(left, right, parent, child) that took the
\* tables from `before` to `after` and returned err
AddEdgeOutcome(before, after, err, left, right, parent, child) ==
    IF EdgeRejected(left, right, parent, child)
    THEN err # "Ok" /\ after = before
    ELSE /\ err = "Ok"
         /\ after = [before EXCEPT !.edges_ = Append(@, Edge(left, right, parent, child))]

\* C11: add_edge(left, right, parent, child) returns an error whenever
\* right <= left or one of its four arguments is negative, and then leaves
\* the edge table as it was; otherwise it appends exactly one row holding
\* the four values.
C11_AddEdgeValidates ==
    [][ret'.op = "add_edge" =>
         AddEdgeOutcome(tables, tables', ret'.err,
                        ret'.at.left, ret'.at.right, ret'.at.parent, ret'.at.child)]_vars

\* A rejected add_edge (negative child id) on a table that holds the row of
\* an earlier accepted add_edge
C11_Witness ==
    /\ pc = "edges"
    /\ ret.op = "add_edge"
    /\ ret.err = "InvalidNodeValue"
    /\ ret.at = Edge(0, 1, 0, -1)
    /\ Len(tables.edges_) = 1

-----------------------------------------------------------------------------
(* The properties of the nested forward list.                              *)

\* The keys and the record indices that are in range
KeysOf(l) == 0..(Len(l.head_) - 1)
RecordsOf(l) == 0..(Len(l.data_) - 1)

\* The content of list k as the caller knows it: the values last stored in
\* the records appended to k since it was last empty, in append order
ListContent(k) ==
    [i \in 1..Len(hist.lists[k + 1]) |-> hist.written[hist.lists[k + 1][i] + 1]]

\* What a traversal of list k with a visitor that always continues visits
Traversal(l, k) == for_each(l, k, 0)

\* C12: for n > k >= 0, after reset(n) the first extend(k, v) succeeds and
\* makes list k a one-element list: head(k) is a valid record index whose
\* fetched value is v, tail(k) == head(k), and next(head(k)) is null.
C12_FirstExtendAfterReset ==
    (/\ pc = "list"
     /\ ret.op = "extend"
     /\ ret.at >= 0
     /\ ret.at < hist.size
     /\ ret.at \notin hist.before.extended)
    => LET OneElement(l, k, v, h) ==
               /\ ret.err = "Ok"
               /\ h.err = "Ok"
               /\ h.val # Null
               /\ fetch(l, h.val) = [err |-> "Ok", val |-> v]
               /\ tail(l, k) = h
               /\ next(l, h.val) = [err |-> "Ok", val |-> Null]
       IN  OneElement(edge_buffer, ret.at, ret.val, head(edge_buffer, ret.at))

\* After reset(2) and two appends to list 0, the first extend(1, v)
C12_Witness ==
    /\ pc = "list"
    /\ ret.op = "extend"
    /\ ret.err = "Ok"
    /\ ret.at = 1
    /\ hist.size = 2
    /\ 1 \notin hist.before.extended
    /\ hist.lists = << <<0, 1>>, <<2>> >>

\* C13: for_each(k, f) with a visitor that always continues visits exactly
\* the values of list k (those appended since it was last emptied; a value
\* replaced through fetch_mut counts as replaced), in the order of the
\* extend(k, .) calls, however they were interleaved with extend calls on
\* other keys.
C13_ForEachInInsertionOrder ==
    (/\ pc = "list"
     /\ ret.op = "for_each"
     /\ ret.stop = 0
     /\ ret.at \in KeysOf(edge_buffer))
    => /\ ret.err = "Ok"
       /\ ret.val = ListContent(ret.at)

\* A traversal of a list whose two records were appended around an append
\* to another key, and hold different values
C13_Witness ==
    /\ pc = "list"
    /\ ret.op = "for_each"
    /\ ret.stop = 0
    /\ ret.at \in KeysOf(edge_buffer)
    /\ hist.lists[ret.at + 1] = <<0, 2>>
    /\ \E k \in KeysOf(edge_buffer) : hist.lists[k + 1] = <<1>>
    /\ ret.val = <<1, 0>>

\* C14: extend(k, v) with k < 0 returns InvalidIndex in every reachable
\* state of the list (never Ok, never NullTail) and leaves head, tail, next
\* and data unchanged.
C14_NegativeKeyRejected ==
    (pc = "list" /\ ret.op = "extend" /\ ret.at < 0)
    => (ret.err = "InvalidIndex" /\ edge_buffer = hist.before.list)

\* extend(-1, v) on a list that holds records
C14_Witness ==
    /\ pc = "list"
    /\ ret.op = "extend"
    /\ ret.at = -1
    /\ ret.err = "InvalidIndex"
    /\ Len(edge_buffer.data_) = 2
    /\ Len(edge_buffer.head_) = 2

\* C15: after nullify_list(k) succeeds, for_each(k, .) visits zero
\* elements, every record index that was valid before the call still
\* fetches the same value (nothing is reclaimed, the number of records is
\* unchanged), and the traversal of every other list is unchanged.
C15_NullifyDetachesOnly ==
    (pc = "list" /\ ret.op = "nullify_list" /\ ret.err = "Ok")
    => LET Detached(l0, l1, k) ==
               /\ Traversal(l1, k) = [err |-> "Ok", visited |-> <<>>]
               /\ Len(l1.data_) = Len(l0.data_)
               /\ \A r \in RecordsOf(l0) : fetch(l1, r) = fetch(l0, r)
               /\ KeysOf(l1) = KeysOf(l0)
               /\ \A j \in KeysOf(l0) \ {k} : Traversal(l1, j) = Traversal(l0, j)
       IN  Detached(hist.before.list, edge_buffer, ret.at)

\* nullify_list has just detached a list of two records, appended around a
\* record of another list that is still there
C15_Witness ==
    /\ pc = "list"
    /\ ret.op = "nullify_list"
    /\ ret.err = "Ok"
    /\ hist.detached = <<0, 2>>
    /\ \E j \in KeysOf(edge_buffer) : hist.lists[j + 1] = <<1>>

\* The length of the array a call addresses with its key or record index
AddressedLength(l, op) ==
    CASE op \in {"head", "for_each", "nullify_list"} -> Len(l.head_)
      [] op = "tail" -> Len(l.tail_)
      [] op = "next" -> Len(l.next_)
      [] op \in {"fetch", "fetch_mut"} -> Len(l.data_)

\* C16: head, tail, for_each and nullify_list called with a list key, and
\* next, fetch and fetch_mut called with a record index, return
\* InvalidIndex whenever the index is negative or not below the current
\* length of the array it addresses, and then leave the list unchanged.
C16_OutOfRangeRejected ==
    (/\ pc = "list"
     /\ ret.op \in {"head", "tail", "for_each", "nullify_list", "next", "fetch", "fetch_mut"}
     /\ \/ ret.at < 0
        \/ ret.at >= AddressedLength(hist.before.list, ret.op))
    => (ret.err = "InvalidIndex" /\ edge_buffer = hist.before.list)

\* next(at) with at the number of records, on a list that holds records
C16_Witness ==
    /\ pc = "list"
    /\ ret.op = "next"
    /\ ret.at = Len(edge_buffer.next_)
    /\ ret.at = 2
    /\ ret.err = "InvalidIndex"

\* C17: after any sequence of new, reset, clear, extend, fetch_mut and
\* nullify_list, extend never returns NullTail: no reachable state has a
\* key whose head is non-null while its tail is null.
C17_NoNullTail ==
    pc = "list"
    => /\ ret.err # "NullTail"
       /\ \A k \in KeysOf(edge_buffer) :
              ~(edge_buffer.head_[k + 1] # Null /\ edge_buffer.tail_[k + 1] = Null)

\* An append to a non-empty list (the branch that tests the tail) after a
\* nullify_list has detached record 0
C17_Witness ==
    /\ pc = "list"
    /\ ret.op = "extend"
    /\ ret.err = "Ok"
    /\ ret.at \in KeysOf(edge_buffer)
    /\ hist.lists[ret.at + 1] = <<1, 2>>
    /\ \A k \in KeysOf(edge_buffer) \ {ret.at} : hist.lists[k + 1] = <<>>

\* The arrays of list k hold the records g, appended in this order
LinkedAs(l, k, g) ==
    /\ (l.head_[k + 1] = Null) <=> (g = <<>>)
    /\ g = <<>> => l.tail_[k + 1] = Null
    /\ g # <<>> =>
          /\ l.head_[k + 1] = g[1]
          /\ l.tail_[k + 1] = g[Len(g)]
          /\ l.next_[g[Len(g)] + 1] = Null
          /\ \A i \in 1..(Len(g) - 1) : l.next_[g[i] + 1] = g[i + 1]

\* C18: in every reachable state and for every key k, head[k] is null
\* exactly when list k is empty (and then tail[k] is null too); otherwise
\* tail[k] is the record most recently appended to list k, the last one
\* reached by following next from head[k], with next[tail[k]] null, and for
\* every other record r of the list next[r] is the record appended to the
\* same list immediately after r.
C18_ListInvariant ==
    pc = "list"
    => /\ Len(hist.lists) = Len(edge_buffer.head_)
       /\ Len(edge_buffer.tail_) = Len(edge_buffer.head_)
       /\ Len(edge_buffer.next_) = Len(edge_buffer.data_)
       /\ \A k \in KeysOf(edge_buffer) : LinkedAs(edge_buffer, k, hist.lists[k + 1])

\* Two lists whose records were appended in turn: list 0 holds records 0
\* and 2, list 1 holds record 1
C18_Witness ==
    /\ pc = "list"
    /\ hist.lists = << <<0, 2>>, <<1>> >>
    /\ edge_buffer.next_ = <<2, Null, Null>>

\* C19: extend(k, v) changes only list k.  When k >= len() it succeeds and
\* len() becomes k + 1, with every newly created list other than k empty
\* (null head and tail); in all cases the traversal of every other list and
\* the value fetched at every previously valid record index are the same as
\* before the call.
C19_ExtendFrame ==
    (pc = "list" /\ ret.op = "extend")
    => LET Framed(l0, l1, k) ==
               /\ k >= len(l0) =>
                     /\ ret.err = "Ok"
                     /\ len(l1) = k + 1
                     /\ \A j \in len(l0)..(k - 1) :
                            /\ head(l1, j) = [err |-> "Ok", val |-> Null]
                            /\ tail(l1, j) = [err |-> "Ok", val |-> Null]
               /\ \A j \in KeysOf(l0) \ {k} : Traversal(l1, j) = Traversal(l0, j)
               /\ \A r \in RecordsOf(l0) : fetch(l1, r) = fetch(l0, r)
       IN  Framed(hist.before.list, edge_buffer, ret.at)

\* extend(2, v) on a list of length 1 that holds a record: lists 1 and 2
\* are created, list 1 empty
C19_Witness ==
    /\ pc = "list"
    /\ ret.op = "extend"
    /\ ret.err = "Ok"
    /\ ret.at = 2
    /\ hist.size = 0
    /\ len(hist.before.list) = 1
    /\ hist.lists = << <<0>>, <<>>, <<1>> >>
    /\ Len(hist.written) = 2

\* The keys whose list is populated
PopulatedKeys(l) == {k \in KeysOf(l) : head(l, k).val # Null}

\* C20 as stated: enumerating head_itr() in descending order visits exactly
\* the parent slots with non-null heads; the set of keys visited equals the
\* set of keys k with head(k) != null.
C20_AsStated ==
    (pc = "list" /\ ret.op = "head_itr") => Range(ret.val) = PopulatedKeys(edge_buffer)

\* What the enumeration does: it visits every key below len(), populated or
\* not, from len() - 1 down to 0
C20_EverySlotVisited ==
    (pc = "list" /\ ret.op = "head_itr")
    => ret.val = [i \in 1..len(edge_buffer) |-> len(edge_buffer) - i]

\* C21: after reset(n) from any state, len() == n, every key 0..n-1 has a
\* null head and a null tail, no records remain (fetch and next fail with
\* InvalidIndex for every index, the indices valid before included), and
\* head(k) fails with InvalidIndex for k >= n.
C21_ResetWipes ==
    (pc = "list" /\ ret.op = "reset")
    => LET Wiped(l, n, failed) ==
               /\ len(l) = n
               /\ \A k \in 0..(n - 1) :
                      /\ head(l, k) = [err |-> "Ok", val |-> Null]
                      /\ tail(l, k) = [err |-> "Ok", val |-> Null]
               /\ \A r \in RecordIndices \cup RecordsOf(hist.before.list) :
                      fetch(l, r) = failed /\ next(l, r) = failed
               /\ \A k \in n..(MaxKey + 1) : head(l, k) = failed
       IN  Wiped(edge_buffer, ret.at, [err |-> "InvalidIndex", val |-> Null])

\* reset(2) on a list of three keys that held three records
C21_Witness ==
    /\ pc = "list"
    /\ ret.op = "reset"
    /\ ret.at = 2
    /\ len(hist.before.list) = 3
    /\ Len(hist.before.list.data_) = 3

\* C22: for_each(k, f) calls the visitor on the elements of list k in
\* insertion order and stops right after the first call in which the
\* visitor returns false: the visitor is called on exactly the prefix of the
\* list up to and including that element, on no later element, and for_each
\* still returns Ok.
C22_ForEachStopsAtFalse ==
    (/\ pc = "list"
     /\ ret.op = "for_each"
     /\ ret.stop > 0
     /\ ret.at \in KeysOf(edge_buffer))
    => /\ ret.err = "Ok"
       /\ ret.val = SubSeq(ListContent(ret.at), 1,
                           Min2(ret.stop, Len(ListContent(ret.at))))

\* A visitor that returns false on its first call, on a list of two records
\* appended around a record of another list
C22_Witness ==
    /\ pc = "list"
    /\ ret.op = "for_each"
    /\ ret.stop = 1
    /\ ret.at \in KeysOf(edge_buffer)
    /\ hist.lists[ret.at + 1] = <<0, 2>>
    /\ Len(ret.val) = 1

\* The records reached by following next from record r, r included, in at
\* most fuel steps: [records, ended]; ended tells that null was reached
RECURSIVE ChainFrom(_, _, _, _)
ChainFrom(l, r, acc, fuel) ==
    IF r = Null THEN [records |-> acc, ended |-> TRUE]
    ELSE IF fuel = 0 \/ r < 0 \/ r >= Len(l.next_) THEN [records |-> acc, ended |-> FALSE]
    ELSE ChainFrom(l, l.next_[r + 1], Append(acc, r), fuel - 1)

\* The records reachable from the head of key k
Reachable(l, k) == Range(ChainFrom(l, l.head_[k + 1], <<>>, Len(l.data_)).records)

\* The records that no list holds any more, by the caller's record
Orphans == (0..(Len(hist.written) - 1)) \ UNION {Range(hist.lists[k + 1]) : k \in
                                                    0..(Len(hist.lists) - 1)}

\* C27: after nullify_list(k), a subsequent extend(k, v) starts a fresh
\* list: head(k) == tail(k) == the index of the new record, for_each(k, .)
\* visits only the values appended after the nullify, and the records
\* appended to k before the nullify are reachable from no key although they
\* can still be fetched by index.  (A key extended since the last wipe whose
\* list is empty has been nullified since.)
C27_FreshListAfterNullify ==
    (/\ pc = "list"
     /\ ret.op = "extend"
     /\ ret.at \in hist.before.extended
     /\ ret.at \in KeysOf(hist.before.list)
     /\ hist.before.list.head_[ret.at + 1] = Null)
    => LET Fresh(l, k, new) ==
               /\ ret.err = "Ok"
               /\ head(l, k) = [err |-> "Ok", val |-> new]
               /\ tail(l, k) = [err |-> "Ok", val |-> new]
               /\ Traversal(l, k) = [err |-> "Ok", visited |-> <<ret.val>>]
               /\ \A r \in Orphans :
                      /\ \A j \in KeysOf(l) : r \notin Reachable(l, j)
                      /\ fetch(l, r) = [err |-> "Ok", val |-> hist.written[r + 1]]
       IN  Fresh(edge_buffer, ret.at, Len(hist.before.list.data_))

\* extend(k, v) after the record of list k was detached, with another list
\* holding the record appended in between
C27_Witness ==
    /\ pc = "list"
    /\ ret.op = "extend"
    /\ ret.err = "Ok"
    /\ ret.at \in hist.before.extended
    /\ ret.at \in KeysOf(hist.before.list)
    /\ hist.before.list.head_[ret.at + 1] = Null
    /\ Orphans = {0}
    /\ hist.lists[ret.at + 1] = <<2>>

\* C28: in every reachable state next[r] is null or a record index strictly
\* greater than r, and no record is reachable from the heads of two
\* different keys; hence following next from any head reaches null after at
\* most as many steps as there are records, and for_each ends whenever the
\* visitor does.
C28_ChainsEnd ==
    pc = "list"
    => LET Ends(l) ==
               /\ \A r \in RecordsOf(l) :
                      \/ l.next_[r + 1] = Null
                      \/ (l.next_[r + 1] > r /\ l.next_[r + 1] \in RecordsOf(l))
               /\ \A j, k \in KeysOf(l) : j # k => Reachable(l, j) \cap Reachable(l, k) = {}
               /\ \A k \in KeysOf(l) :
                      /\ ChainFrom(l, l.head_[k + 1], <<>>, Len(l.data_)).ended
                      /\ Len(Traversal(l, k).visited) <= Len(l.data_)
       IN  Ends(edge_buffer)

\* Two lists whose records interleave: one of records 0 and 2, the other of
\* record 1
C28_Witness ==
    /\ pc = "list"
    /\ \E j, k \in KeysOf(edge_buffer) :
           /\ hist.lists[j + 1] = <<0, 2>>
           /\ hist.lists[k + 1] = <<1>>
           /\ Reachable(edge_buffer, j) = {0, 2}
           /\ Reachable(edge_buffer, k) = {1}

\* The table a call adds its row to
TableOf(t, op) ==
    CASE op = "add_node" -> t.nodes_
      [] op = "add_edge" -> t.edges_
      [] op = "add_site" -> t.sites_
      [] op = "add_mutation" -> t.mutations_

\* C30: a successful add_node appends exactly one row and returns the node
\* table's length after the insertion, which is the new node's index plus
\* one and not the index; add_edge, add_site and add_mutation likewise
\* return the row count after their insertion.
C30_AddRowReturnsLength ==
    [][(/\ pc = "building"
        /\ ret'.op \in {"add_node", "add_edge", "add_site", "add_mutation"}
        /\ ret'.err = "Ok")
       => /\ Len(TableOf(tables', ret'.op)) = Len(TableOf(tables, ret'.op)) + 1
          /\ SubSeq(TableOf(tables', ret'.op), 1, Len(TableOf(tables, ret'.op))) =
                 TableOf(tables, ret'.op)
          /\ ret'.val = Len(TableOf(tables', ret'.op))
          /\ ret'.val = (Len(TableOf(tables, ret'.op)) + 1)
          /\ \A op \in {"add_node", "add_edge", "add_site", "add_mutation"} \ {ret'.op} :
                 TableOf(tables', op) = TableOf(tables, op)]_vars

\* The second node added: its index is 1 and add_node returned 2
C30_Witness ==
    /\ pc = "building"
    /\ ret.op = "add_node"
    /\ ret.err = "Ok"
    /\ ret.val = 2
    /\ Len(tables.nodes_) = 2
    /\ Len(tables.edges_) = 1

\* The positions of the founder list whose founder has buffered segments
AlivePositions ==
    {i \in 1..Len(samples.edge_buffer_founder_nodes) :
        head(edge_buffer, samples.edge_buffer_founder_nodes[i]).val # Null}

\* The (0-based) indices of the pre-existing edges of parent p
EdgesOfParent(p) == {i - 1 : i \in {j \in 1..Len(tables.edges_) : tables.edges_[j].parent = p}}

\* [start, stop) of an entry is the first edge of its parent and one past
\* the last one, or the sentinel twice
RunOf(e) ==
    IF EdgesOfParent(e.parent) = {} THEN e.start = UsizeMax /\ e.stop = UsizeMax
    ELSE /\ e.start \in EdgesOfParent(e.parent)
         /\ \A i \in EdgesOfParent(e.parent) : e.start <= i /\ i < e.stop
         /\ e.stop - 1 \in EdgesOfParent(e.parent)

\* The entries are ordered by parent birth time descending, then by run
\* start ascending, then by parent id ascending
OrderedLocations(rv) ==
    \A i, j \in 1..Len(rv) :
        i < j => \/ TimeOf(rv[i].parent) > TimeOf(rv[j].parent)
                 \/ /\ TimeOf(rv[i].parent) = TimeOf(rv[j].parent)
                    /\ \/ rv[i].start < rv[j].start
                       \/ rv[i].start = rv[j].start /\ rv[i].parent <= rv[j].parent

\* C25 as stated: find_pre_existing_edges returns one entry for exactly the
\* founder nodes whose edge-buffer list is non-empty, each with the run of
\* its parent, ordered by time descending, run start, parent id.
C25_AsStated ==
    pc = "step3"
    => LET Located(rv, founders) ==
               /\ \A i \in 1..Len(rv) : \E a \in AlivePositions : founders[a] = rv[i].parent
               /\ \A a \in AlivePositions :
                      Cardinality({i \in 1..Len(rv) : rv[i].parent = founders[a]}) = 1
               /\ \A i \in 1..Len(rv) : RunOf(rv[i])
               /\ OrderedLocations(rv)
       IN  Located(loc.existing_edges, samples.edge_buffer_founder_nodes)

\* C25: find_pre_existing_edges returns one entry for each position of
\* edge_buffer_founder_nodes whose founder has a non-empty edge-buffer list
\* (a founder listed twice gets two entries) and no other entry; each
\* entry's [start, stop) is the index of the first pre-existing edge with
\* that parent and one past the index of the last such edge, or the
\* not-found sentinel for both; the list is ordered by parent birth time
\* descending, ties broken by run start ascending and then by parent id
\* ascending.
C25_OneEntryPerListedFounder ==
    pc = "step3"
    => LET Located(rv, founders) ==
               /\ Len(rv) = Cardinality(AlivePositions)
               /\ \A p \in NodeIds :
                      Cardinality({i \in 1..Len(rv) : rv[i].parent = p}) =
                          Cardinality({a \in AlivePositions : founders[a] = p})
               /\ \A i \in 1..Len(rv) : RunOf(rv[i])
               /\ OrderedLocations(rv)
       IN  Located(loc.existing_edges, samples.edge_buffer_founder_nodes)

\* Three founders, two of them born at the same time with buffered
\* segments: the one of the larger id has a run in the edge table and comes
\* first, the other has none
C25_Witness ==
    /\ pc = "step3"
    /\ Len(loc.existing_edges) = 2
    /\ loc.existing_edges[1].parent > loc.existing_edges[2].parent
    /\ loc.existing_edges[1].start # UsizeMax
    /\ loc.existing_edges[2].start = UsizeMax
    /\ Len(samples.edge_buffer_founder_nodes) > 2

-----------------------------------------------------------------------------
(* queue_children on its own: segments are recorded in the ancestry lists  *)
(* of the children, and the children of edges are queued.                  *)

QueueLength == 3
MaxSegments == 2
MaxQueueCalls == 2
MaxChild == 1

\* The intervals [left, right) of the genome
QueueIntervals ==
    {lr \in (0..(QueueLength - 1)) \X (1..QueueLength) : lr[1] < lr[2]}

\* hist.recorded[child + 1] holds the segments recorded for child, in the
\* order recorded; hist.before the overlapper as it was when queue_children
\* was called
QueueInit ==
    /\ tables = NewTables(QueueLength).tables
    /\ edge_buffer = NewList
    /\ samples = [samples |-> <<>>, edge_buffer_founder_nodes |-> <<>>]
    /\ state = [NewBuffers EXCEPT !.ancestry = reset(NewList, MaxChild + 1)]
    /\ idmap = <<>>
    /\ pc = "queue"
    /\ loc = NoLocals
    /\ ret = NoReturn
    /\ hist = [recorded |-> [c \in 1..(MaxChild + 1) |-> <<>>],
               before |-> NewOverlapper]

\* ancestry.extend(child, Segment { left, right, node })
RecordAncestry ==
    /\ pc = "queue"
    /\ Len(state.ancestry.data_) < MaxSegments
    /\ \E child \in 0..MaxChild : \E lr \in QueueIntervals : \E node \in 0..1 :
           LET Recorded(seg, e) ==
                   /\ state' = [state EXCEPT !.ancestry = e.list]
                   /\ ret' = [op |-> "extend", err |-> e.err, val |-> 0,
                              at |-> [child |-> child, left |-> seg.left,
                                      right |-> seg.right]]
                   /\ hist' = [hist EXCEPT !.recorded[child + 1] = Append(@, seg)]
               Record(seg) == Recorded(seg, extend(state.ancestry, child, seg))
           IN  Record(Segment(lr[1], lr[2], node))
    /\ UNCHANGED <<tables, edge_buffer, samples, idmap, pc, loc>>

\* queue_children(child, left, right, ancestry, overlapper) for an edge
\* (child, left, right), left < right; loc.edge_i counts the calls
QueueChildrenCall ==
    /\ pc = "queue"
    /\ loc.edge_i < MaxQueueCalls
    /\ \E child \in (-1)..(MaxChild + 1) : \E lr \in QueueIntervals :
           LET Queued(q) ==
                   /\ state' = [state EXCEPT !.overlapper = q.overlapper]
                   /\ ret' = [op |-> "queue_children", err |-> q.err, val |-> 0,
                              at |-> [child |-> child, left |-> lr[1], right |-> lr[2]]]
           IN  Queued(queue_children(child, lr[1], lr[2], state.ancestry, state.overlapper))
    /\ loc' = [loc EXCEPT !.edge_i = @ + 1]
    /\ hist' = [hist EXCEPT !.before = state.overlapper]
    /\ UNCHANGED <<tables, edge_buffer, samples, idmap, pc>>

QueueNext ==
    \/ RecordAncestry
    \/ QueueChildrenCall

SpecQueue == QueueInit /\ [][QueueNext]_vars

\* The segments of segs that overlap [left, right) with positive length, in
\* the order of segs, each cut down to its intersection with [left, right)
RECURSIVE Intersections(_, _, _)
Intersections(segs, left, right) ==
    IF segs = <<>> THEN <<>>
    ELSE (IF Max2(Head(segs).left, left) < Min2(Head(segs).right, right)
          THEN <<Segment(Max2(Head(segs).left, left), Min2(Head(segs).right, right),
                         Head(segs).node)>>
          ELSE <<>>) \o Intersections(Tail(segs), left, right)

\* C26: for an edge (child, left, right), queue_children enqueues, in the
\* order of the child's ancestry list, exactly one interval for each
\* ancestry segment of the child that overlaps [left, right) with positive
\* length; the interval is [max(seg.left, left), min(seg.right, right))
\* carrying seg.node, so every interval enqueued is non-empty and lies
\* inside both the edge and the segment; disjoint or merely abutting
\* segments enqueue nothing.
C26_QueueChildren ==
    (/\ pc = "queue"
     /\ ret.op = "queue_children"
     /\ ret.at.child \in KeysOf(state.ancestry))
    => LET Enqueued(before, after, added) ==
               /\ ret.err = "Ok"
               /\ after = before \o added
               /\ \A i \in 1..Len(added) :
                      /\ added[i].left < added[i].right
                      /\ ret.at.left <= added[i].left /\ added[i].right <= ret.at.right
                      /\ \E seg \in Range(hist.recorded[ret.at.child + 1]) :
                             /\ seg.node = added[i].node
                             /\ seg.left <= added[i].left /\ added[i].right <= seg.right
           Called(o) ==
               Enqueued(hist.before.segment_queue, o.segment_queue,
                        Intersections(hist.recorded[ret.at.child + 1],
                                      ret.at.left, ret.at.right))
       IN  /\ Called(state.overlapper)
           /\ state.overlapper = [hist.before EXCEPT !.segment_queue =
                                                         state.overlapper.segment_queue]

\* A second call, on a child with one segment that is cut down by the edge
\* and one that abuts it: one interval is added to those already queued
C26_Witness ==
    /\ pc = "queue"
    /\ ret.op = "queue_children"
    /\ ret.err = "Ok"
    /\ ret.at.child \in KeysOf(state.ancestry)
    /\ Len(hist.recorded[ret.at.child + 1]) = 2
    /\ hist.recorded[ret.at.child + 1][1].right = ret.at.left
    /\ hist.recorded[ret.at.child + 1][2].left < ret.at.right
    /\ hist.recorded[ret.at.child + 1][2].right > ret.at.right
    /\ Len(hist.before.segment_queue) = 1
    /\ Len(state.overlapper.segment_queue) = 2

\* Some founder id is negative or no key of the edge buffer handed to the
\* pass
FounderOutOfRange ==
    \E i \in 1..Len(samples.edge_buffer_founder_nodes) :
        \/ samples.edge_buffer_founder_nodes[i] < 0
        \/ samples.edge_buffer_founder_nodes[i] >= len(hist.edge_buffer)

\* C29 as stated: the pass fails with an InvalidIndex error if any id in
\* edge_buffer_founder_nodes is negative or >= EdgeBuffer::len(), even when
\* that founder has no buffered edges.
C29_AsStated ==
    (pc = "done" /\ FounderOutOfRange) => ret.err = "InvalidIndex"

\* C29, what the code does: a pass given a founder id outside the key range
\* of the edge buffer never returns Ok; it returns InvalidIndex when every
\* founder is a node of the table and every buffered child is one, and
\* panics before the lookup otherwise.
C29_NeverOk ==
    (pc = "done" /\ FounderOutOfRange)
    => /\ ret.err \in {"InvalidIndex", "panic"}
       /\ (/\ \A i \in 1..Len(samples.edge_buffer_founder_nodes) :
                  samples.edge_buffer_founder_nodes[i] \in NodeIds
           /\ \A r \in 1..Len(hist.edge_buffer.data_) :
                  hist.edge_buffer.data_[r].node \in NodeIds)
          => ret.err = "InvalidIndex"

\* The parents step 1 has handed to the sweep+merge step, in order; with
\* populated, only those that had buffered segments
RECURSIVE Step1Parents(_, _)
Step1Parents(log, populated) ==
    IF log = <<>> THEN <<>>
    ELSE (IF Head(log).step = 1 /\ (populated => Head(log).births # <<>>)
          THEN <<Head(log).parent>>
          ELSE <<>>) \o Step1Parents(Tail(log), populated)

\* The ids of S in descending order
RECURSIVE Descending(_)
Descending(S) ==
    IF S = {} THEN <<>>
    ELSE LET m == CHOOSE x \in S : \A y \in S : x >= y
         IN  <<m>> \o Descending(S \ {m})

\* The keys of S above the highest key of S whose parent was born no later
\* than max_time
AboveFirstOld(S) ==
    {k \in S : \A j \in S : TimeOf(j) <= loc.max_time => j < k}

\* C24 as stated: step 1 scans the populated slots of the edge buffer from
\* the highest node id downward, sweeping and merging each such parent while
\* its birth time exceeds max_time, and stops at the first such parent whose
\* birth time is <= max_time: when step 1 has ended, the populated parents it
\* has merged are the populated slots above the highest populated slot born
\* no later than max_time, in descending order of id.
C24_AsStated ==
    pc = "step3"
    => Step1Parents(hist.merged, TRUE) = Descending(AboveFirstOld(PopulatedKeys(edge_buffer)))

\* C24, what the loop does: it scans every slot, populated or not, from
\* len() - 1 downward, sweeps and merges each slot's parent while its birth
\* time exceeds max_time, and stops at the first slot, populated or not,
\* whose parent was born no later than max_time.
C24_EverySlotScanned ==
    pc = "step3"
    => /\ Step1Parents(hist.merged, FALSE) = Descending(AboveFirstOld(KeysOf(edge_buffer)))
       /\ \A i \in 1..Len(hist.merged) :
              hist.merged[i].step = 1 => TimeOf(hist.merged[i].parent) > loc.max_time

-----------------------------------------------------------------------------
(* A pass followed by a second pass on its own output.                     *)

\* The output ids of the samples of a pass
Remapped(smp, idm) == [i \in 1..Len(smp) |-> idm[smp[i] + 1]]

\* The second call: the tables and the (reset, hence empty) edge buffer are
\* those the first pass left, the samples are its output samples, and the
\* founders are no node or every node of the output.  hist.before keeps the
\* buffers and the idmap the first pass left, hist.tables the tables the
\* second pass is called on.
SimplifyAgain ==
    /\ PassOk
    /\ hist.before.idmap = <<>>
    /\ \E fs \in {<<>>, Ascending(0..(Len(tables.nodes_) - 1))} :
           samples' = [samples |-> Remapped(samples.samples, idmap),
                       edge_buffer_founder_nodes |-> fs]
    /\ pc' = "idle"
    /\ loc' = NoLocals
    /\ ret' = NoReturn
    /\ hist' = [NoHistory EXCEPT !.tables = tables, !.edge_buffer = edge_buffer,
                                 !.before = [state |-> state, idmap |-> idmap]]
    /\ UNCHANGED <<tables, edge_buffer, state, idmap>>

AgainNext ==
    \/ Next
    \/ SimplifyAgain

SpecAgain == Init /\ [][AgainNext]_vars

\* The pass under way is the second one
SecondPass == hist.before.idmap # <<>>

\* C23: simplifying, with an empty EdgeBuffer, a table collection that is
\* itself the output of a previous simplification is a no-op: the node and
\* edge tables after the call are identical to those before it and the
\* idmap maps every retained node to itself.
C23_SecondPassIsNoOp ==
    (pc = "done" /\ SecondPass)
    => /\ ret.err = "Ok"
       /\ tables.nodes_ = hist.tables.nodes_
       /\ tables.edges_ = hist.tables.edges_
       /\ idmap = [i \in 1..Len(hist.tables.nodes_) |-> i - 1]

\* A second pass that has ended on tables with a retained ancestor that is
\* no sample and is the parent of two edges, with every node a founder
C23_Witness ==
    /\ pc = "done"
    /\ SecondPass
    /\ ret.err = "Ok"
    /\ Len(tables.nodes_) > Len(samples.samples)
    /\ Len(tables.edges_) = 2
    /\ tables.edges_[1].parent = tables.edges_[2].parent
    /\ tables.edges_[1].child # tables.edges_[2].child
    /\ samples.edge_buffer_founder_nodes # <<>>
    /\ Len(hist.merged) > 0

=============================================================================
